---- MODULE Spec2Model ----
(***************************************************************************)
(* Position ledger of the option-chain paper trader                        *)
(* (src/portfolio_manager.py, class PortfolioManager) and its signal       *)
(* engine (src/generate_signal.py).                                        *)
(*                                                                         *)
(* Spec       the ledger: Buy, Sell and Summary as whole calls             *)
(* SaveSpec   the ledger one file operation at a time, with crashes        *)
(* SignalSpec the signal engine applied to prepared snapshot tables        *)
(*                                                                         *)
(* Prices and cash are exact amounts (integers); the wall-clock fields of  *)
(* the records (created_at, last_updated, entry_time, exit_time,           *)
(* timestamp) are left out: no decision of the ledger reads them.          *)
(***************************************************************************)
EXTENDS Integers, Sequences, FiniteSets, TLC

\* ------------------------------------------------------------ constants
LOT_SIZE == 150
DEFAULT_INITIAL_BALANCE == 100000
\* the sentinel "no buy yet" of last_buy_snapshot_seq
NO_BUY_SEQ == 0 - 9999
\* Optional[float] = None
None == 0 - 1
\* src/generate_signal.py: the stop loss in hundredths (0.5), the snapshots a
\* position is held at least, the snapshots between two entries
DEFAULT_STOP_LOSS_PCT == 50
DEFAULT_MIN_HOLD_SNAPS == 7
DEFAULT_COOLDOWN == 20

\* ------------------------------------------------------------ bounds
\* the trades one run of the ledger may record
MaxTrades == 3

\* the inputs the calls draw from
Prices == {0, 1}
Seqs == {0, 1}
SnapshotIds == {101}
SignalTypes == {"BUY_CALL", "BUY_PUT"}
Expiries == {"2025-01-30"}
Strikes == {24000}
InitialBalances == {0, LOT_SIZE, DEFAULT_INITIAL_BALANCE}

VARIABLES
    portfolio,        \* self.portfolio: balance, positions, trade_history, last_buy_snapshot_seq
    initial_balance,  \* self.initial_balance
    portfolio_file,   \* content of the canonical file portfolio.json
    origin_main,      \* portfolio.json as of origin/main, the target of the git sync
    ret,              \* the last call and what it returned
    pc,               \* SaveSpec: where the running call stands
    temp_file,        \* SaveSpec: content of portfolio.json.tmp
    backup_file,      \* SaveSpec: content of portfolio.json.bak
    df                \* SignalSpec: the prepared snapshot table

vars ==
    <<portfolio, initial_balance, portfolio_file, origin_main, ret,
      pc, temp_file, backup_file, df>>

\* the state of the file operations and of the signal engine
save_vars == <<pc, temp_file, backup_file>>

\* ------------------------------------------------------------ files
Absent == [kind |-> "absent"]
Untracked == [kind |-> "untracked"]
Stored(p) == [kind |-> "ledger", data |-> p]

\* no call is running
Idle == [at |-> "idle", op |-> "none", attempt |-> 0, result |-> <<>>]

\* ------------------------------------------------------------ ledger reads
NewPortfolio(balance) ==
    [balance |-> balance,
     positions |-> <<>>,
     trade_history |-> <<>>,
     last_buy_snapshot_seq |-> NO_BUY_SEQ]

get_balance(p) == p.balance

has_open_position_typo(p) ==
    Len(SelectSeq(p.positions, LAMBDA q : q.status = "OPEN")) > 0

has_open_position(p) ==
    Len(SelectSeq(p.positions, LAMBDA q : q.status = "open")) > 0

\* index in positions of the position get_open_position returns, 0 for None
get_open_position_latest(p) == Len(p.positions)

get_open_position(p) ==
    LET open_positions == {i \in 1..Len(p.positions) : p.positions[i].status = "open"}
    IN IF open_positions = {} THEN 0
       ELSE CHOOSE i \in open_positions : \A j \in open_positions : i <= j

get_last_buy_snapshot_seq(p) == p.last_buy_snapshot_seq

\* ------------------------------------------------------------ buy
\* cost = ltp * LOT_SIZE; if cost > balance
insufficient_balance_inclusive(ltp, balance) == ltp * LOT_SIZE >= balance

insufficient_balance_reversed(ltp, balance) == ltp * LOT_SIZE < balance

insufficient_balance(ltp, balance) == ltp * LOT_SIZE > balance

new_position_seq_from_id(signal_type, expiry, strike, ltp, snapshot_id, snapshot_seq) ==
    [type |-> signal_type,
     expiry |-> expiry,
     strike |-> strike,
     entry_price |-> ltp,
     entry_cost |-> ltp * LOT_SIZE,
     quantity |-> LOT_SIZE,
     snapshot_id |-> snapshot_id,
     snapshot_seq |-> snapshot_id,
     status |-> "open"]

new_position(signal_type, expiry, strike, ltp, snapshot_id, snapshot_seq) ==
    [type |-> signal_type,
     expiry |-> expiry,
     strike |-> strike,
     entry_price |-> ltp,
     entry_cost |-> ltp * LOT_SIZE,
     quantity |-> LOT_SIZE,
     snapshot_id |-> snapshot_id,
     snapshot_seq |-> snapshot_seq,
     status |-> "open"]

buy_trade(signal_type, expiry, strike, ltp, snapshot_id, snapshot_seq, balance, new_balance) ==
    [action |-> "BUY",
     signal_type |-> signal_type,
     expiry |-> expiry,
     strike |-> strike,
     ltp |-> ltp,
     cost |-> ltp * LOT_SIZE,
     balance_before |-> balance,
     balance_after |-> new_balance,
     snapshot_id |-> snapshot_id,
     snapshot_seq |-> snapshot_seq]

\* self.portfolio["trade_history"].append(trade)
append_trade_capped(trade_history, trade) ==
    IF Len(trade_history) < 2 THEN Append(trade_history, trade)
    ELSE Append(Tail(trade_history), trade)

append_trade(trade_history, trade) == Append(trade_history, trade)

\* return False, message: nothing was touched
rejected(p, message) == [ok |-> FALSE, msg |-> message, portfolio |-> p]

accepted(p, message) == [ok |-> TRUE, msg |-> message, portfolio |-> p]

\* buy up to the save: the checks, the debit, the new position, the trade record
buy_marks_before_check(p, signal_type, expiry, strike, ltp, snapshot_id, snapshot_seq) ==
    LET cost == ltp * LOT_SIZE
        balance == get_balance(p)
        new_balance == balance - cost
        marked == [p EXCEPT !.last_buy_snapshot_seq = snapshot_seq]
    IN IF has_open_position(p)
       THEN rejected(marked, <<"Cannot buy: Position already open">>)
       ELSE IF insufficient_balance(ltp, balance)
       THEN rejected(marked, <<"Insufficient balance: Need, have", cost, balance>>)
       ELSE accepted(
              [balance |-> new_balance,
               positions |-> Append(p.positions,
                   new_position(signal_type, expiry, strike, ltp, snapshot_id, snapshot_seq)),
               last_buy_snapshot_seq |-> snapshot_seq,
               trade_history |-> append_trade(p.trade_history,
                   buy_trade(signal_type, expiry, strike, ltp, snapshot_id, snapshot_seq,
                             balance, new_balance))],
              <<"Bought @ for. New balance", signal_type, expiry, strike, ltp, cost, new_balance>>)

buy(p, signal_type, expiry, strike, ltp, snapshot_id, snapshot_seq) ==
    LET cost == ltp * LOT_SIZE
        balance == get_balance(p)
        new_balance == balance - cost
    IN IF has_open_position(p)
       THEN rejected(p, <<"Cannot buy: Position already open">>)
       ELSE IF insufficient_balance(ltp, balance)
       THEN rejected(p, <<"Insufficient balance: Need, have", cost, balance>>)
       ELSE accepted(
              [balance |-> new_balance,
               positions |-> Append(p.positions,
                   new_position(signal_type, expiry, strike, ltp, snapshot_id, snapshot_seq)),
               last_buy_snapshot_seq |-> snapshot_seq,
               trade_history |-> append_trade(p.trade_history,
                   buy_trade(signal_type, expiry, strike, ltp, snapshot_id, snapshot_seq,
                             balance, new_balance))],
              <<"Bought @ for. New balance", signal_type, expiry, strike, ltp, cost, new_balance>>)

\* ------------------------------------------------------------ sell
\* pnl_pct = (pnl / entry_cost) * 100 if entry_cost > 0 else 0, in whole percent
pnl_pct_of(pnl, entry_cost) ==
    IF entry_cost > 0 THEN (pnl * 100) \div entry_cost ELSE 0

\* the position after the assignments of sell: exit fields written, status closed
close_position_stays_open(position, ltp, snapshot_id, snapshot_seq) ==
    LET proceeds == ltp * LOT_SIZE
        pnl == proceeds - position.entry_cost
    IN [exit_price |-> ltp,
        exit_proceeds |-> proceeds,
        pnl |-> pnl,
        pnl_pct |-> pnl_pct_of(pnl, position.entry_cost),
        exit_snapshot_id |-> snapshot_id,
        exit_snapshot_seq |-> snapshot_seq] @@ position

close_position_pnl_per_contract(position, ltp, snapshot_id, snapshot_seq) ==
    LET proceeds == ltp * LOT_SIZE
        pnl == proceeds - position.entry_price
    IN [exit_price |-> ltp,
        exit_proceeds |-> proceeds,
        pnl |-> pnl,
        pnl_pct |-> pnl_pct_of(pnl, position.entry_cost),
        status |-> "closed",
        exit_snapshot_id |-> snapshot_id,
        exit_snapshot_seq |-> snapshot_seq] @@ position

close_position(position, ltp, snapshot_id, snapshot_seq) ==
    LET proceeds == ltp * LOT_SIZE
        pnl == proceeds - position.entry_cost
    IN [exit_price |-> ltp,
        exit_proceeds |-> proceeds,
        pnl |-> pnl,
        pnl_pct |-> pnl_pct_of(pnl, position.entry_cost),
        status |-> "closed",
        exit_snapshot_id |-> snapshot_id,
        exit_snapshot_seq |-> snapshot_seq] @@ position

sell_trade(closed, balance, new_balance, snapshot_id, snapshot_seq) ==
    [action |-> "SELL",
     signal_type |-> closed.type,
     expiry |-> closed.expiry,
     strike |-> closed.strike,
     entry_price |-> closed.entry_price,
     exit_price |-> closed.exit_price,
     proceeds |-> closed.exit_proceeds,
     pnl |-> closed.pnl,
     pnl_pct |-> closed.pnl_pct,
     balance_before |-> balance,
     balance_after |-> new_balance,
     snapshot_id |-> snapshot_id,
     snapshot_seq |-> snapshot_seq]

\* the ledger after the assignments of sell; position i is the one sell holds
sell_update_clears_cooldown(p, i, closed, new_balance, trade) ==
    [balance |-> new_balance,
     positions |-> [p.positions EXCEPT ![i] = closed],
     last_buy_snapshot_seq |-> NO_BUY_SEQ,
     trade_history |-> append_trade(p.trade_history, trade)]

sell_update(p, i, closed, new_balance, trade) ==
    [balance |-> new_balance,
     positions |-> [p.positions EXCEPT ![i] = closed],
     last_buy_snapshot_seq |-> p.last_buy_snapshot_seq,
     trade_history |-> append_trade(p.trade_history, trade)]

\* a sell that credits the profit instead of the proceeds
sell_credits_pnl(p, ltp, snapshot_id, snapshot_seq) ==
    LET i == get_open_position(p)
    IN IF i = 0
       THEN rejected(p, <<"Cannot sell: No open position">>)
       ELSE LET balance == get_balance(p)
                closed == close_position(p.positions[i], ltp, snapshot_id, snapshot_seq)
                new_balance == balance + closed.pnl
            IN accepted(
                 sell_update(p, i, closed, new_balance,
                             sell_trade(closed, balance, new_balance, snapshot_id, snapshot_seq)),
                 <<"Sold @ for. P&L. New balance", closed.type, closed.expiry, closed.strike,
                   ltp, closed.exit_proceeds, closed.pnl, closed.pnl_pct, new_balance>>)

\* sell up to the save
sell(p, ltp, snapshot_id, snapshot_seq) ==
    LET i == get_open_position(p)
    IN IF i = 0
       THEN rejected(p, <<"Cannot sell: No open position">>)
       ELSE LET balance == get_balance(p)
                new_balance == balance + ltp * LOT_SIZE
                closed == close_position(p.positions[i], ltp, snapshot_id, snapshot_seq)
            IN accepted(
                 sell_update(p, i, closed, new_balance,
                             sell_trade(closed, balance, new_balance, snapshot_id, snapshot_seq)),
                 <<"Sold @ for. P&L. New balance", closed.type, closed.expiry, closed.strike,
                   ltp, closed.exit_proceeds, closed.pnl, closed.pnl_pct, new_balance>>)

\* ------------------------------------------------------------ persistence
\* what one _save_portfolio call meets: the write or the read-back fails, or the
\* rename succeeds and the git sync skips, pushes, or resets to origin/main
SaveOutcomes == {"fail", "skip", "pushed", "reset"}

\* the outcomes of the save and of its retry; the retry runs only after a failure
SaveAttempts ==
    {<<first, "skip">> : first \in SaveOutcomes \ {"fail"}}
        \cup {<<"fail", second>> : second \in SaveOutcomes}

\* the canonical file and origin/main after the sync; it returns early when the
\* file is not tracked, pushes the committed file, or, on a rejected push, runs
\* git reset --hard origin/main, which rewrites the working file
_sync_to_git(file, origin, outcome) ==
    IF origin.kind = "untracked" \/ outcome = "skip"
    THEN [file |-> file, origin |-> origin]
    ELSE IF outcome = "pushed"
    THEN [file |-> file, origin |-> file]
    ELSE [file |-> origin, origin |-> origin]

\* temp file written, read back, renamed over the canonical file, then the sync;
\* on an exception the temp file is removed and the canonical file is untouched
_save_portfolio(p, file, origin, outcome) ==
    IF outcome = "fail"
    THEN [ok |-> FALSE, file |-> file, origin |-> origin]
    ELSE LET synced == _sync_to_git(Stored(p), origin, outcome)
         IN [ok |-> TRUE, file |-> synced.file, origin |-> synced.origin]

\* save_success = self._save_portfolio(); if not save_success: one more try
save_with_retry(p, file, origin, first, second) ==
    LET s1 == _save_portfolio(p, file, origin, first)
    IN IF s1.ok THEN s1 ELSE _save_portfolio(p, s1.file, s1.origin, second)

\* ------------------------------------------------------------ summary
RECURSIVE SumPnl(_)
SumPnl(closed_positions) ==
    IF closed_positions = <<>> THEN 0
    ELSE Head(closed_positions).pnl + SumPnl(Tail(closed_positions))

get_position_value(p, current_ltp) ==
    LET i == get_open_position(p)
    IN IF i = 0 \/ current_ltp = None THEN 0
       ELSE current_ltp * p.positions[i].quantity

get_total_portfolio_value(p, current_ltp) ==
    get_balance(p) + get_position_value(p, current_ltp)

\* open_position is the position in a one-element sequence, <<>> for None;
\* "if open_position and current_ltp" is false for a price of 0 as for None
get_portfolio_summary(p, initial, current_ltp) ==
    LET i == get_open_position(p)
        closed_positions == SelectSeq(p.positions, LAMBDA q : q.status = "closed")
        priced == i # 0 /\ current_ltp # None /\ current_ltp # 0
        entry_price == IF i # 0 THEN p.positions[i].entry_price ELSE 0
        quantity == IF i # 0 THEN p.positions[i].quantity ELSE LOT_SIZE
        unrealized_pnl == IF priced THEN (current_ltp - entry_price) * quantity ELSE 0
        entry_cost == entry_price * quantity
    IN [cash |-> get_balance(p),
        position_value |-> get_position_value(p, current_ltp),
        total_value |-> get_total_portfolio_value(p, current_ltp),
        balance |-> get_balance(p),
        initial_balance |-> initial,
        total_pnl |-> SumPnl(closed_positions),
        unrealized_pnl |-> unrealized_pnl,
        unrealized_pnl_pct |-> IF priced THEN pnl_pct_of(unrealized_pnl, entry_cost) ELSE 0,
        total_trades |-> Len(p.trade_history),
        open_position |-> IF i = 0 THEN <<>> ELSE <<p.positions[i]>>,
        closed_positions_count |-> Len(closed_positions)]

\* ------------------------------------------------------------ the ledger
\* A manager constructed with no portfolio file: _load_portfolio builds the new
\* ledger and saves it. The save may fail (no file yet); a file that was written
\* is under version control with origin/main, or it is not.
Init ==
    /\ initial_balance \in InitialBalances
    /\ portfolio = NewPortfolio(initial_balance)
    /\ portfolio_file \in {Absent, Stored(portfolio)}
    /\ origin_main \in {Untracked} \cup {Stored(portfolio) : tracked \in {portfolio_file} \ {Absent}}
    /\ ret = [op |-> "init"]
    /\ pc = Idle
    /\ temp_file = Absent
    /\ backup_file = Absent
    /\ df = <<>>

\* the files after the save that follows an accepted trade; a rejected call
\* returns before it
Persist(r, attempts) ==
    IF r.ok
    THEN LET saved == save_with_retry(r.portfolio, portfolio_file, origin_main,
                                      attempts[1], attempts[2])
         IN /\ Len(portfolio.trade_history) < MaxTrades
            /\ portfolio_file' = saved.file
            /\ origin_main' = saved.origin
    ELSE /\ attempts = <<"skip", "skip">>
         /\ UNCHANGED <<portfolio_file, origin_main>>

BuyCall(signal_type, expiry, strike, ltp, snapshot_id, snapshot_seq, attempts) ==
    LET r == buy(portfolio, signal_type, expiry, strike, ltp, snapshot_id, snapshot_seq)
    IN /\ Persist(r, attempts)
       /\ portfolio' = r.portfolio
       /\ ret' = [op |-> "buy", ok |-> r.ok, msg |-> r.msg]
       /\ UNCHANGED <<initial_balance, save_vars, df>>

SellCall(ltp, snapshot_id, snapshot_seq, attempts) ==
    LET r == sell(portfolio, ltp, snapshot_id, snapshot_seq)
    IN /\ Persist(r, attempts)
       /\ portfolio' = r.portfolio
       /\ ret' = [op |-> "sell", ok |-> r.ok, msg |-> r.msg]
       /\ UNCHANGED <<initial_balance, save_vars, df>>

SummaryCall_saves(current_ltp) ==
    /\ ret' = [op |-> "summary",
               summary |-> get_portfolio_summary(portfolio, initial_balance, current_ltp)]
    /\ portfolio_file' = Stored(portfolio)
    /\ UNCHANGED <<portfolio, initial_balance, origin_main>>
    /\ UNCHANGED <<save_vars, df>>

SummaryCall(current_ltp) ==
    /\ ret' = [op |-> "summary",
               summary |-> get_portfolio_summary(portfolio, initial_balance, current_ltp)]
    /\ UNCHANGED <<portfolio, initial_balance, portfolio_file, origin_main>>
    /\ UNCHANGED <<save_vars, df>>

Buy ==
    \E signal_type \in SignalTypes, expiry \in Expiries, strike \in Strikes,
       ltp \in Prices, snapshot_id \in SnapshotIds, snapshot_seq \in Seqs,
       attempts \in SaveAttempts :
        BuyCall(signal_type, expiry, strike, ltp, snapshot_id, snapshot_seq, attempts)

Sell ==
    \E ltp \in Prices, snapshot_id \in SnapshotIds, snapshot_seq \in Seqs,
       attempts \in SaveAttempts :
        SellCall(ltp, snapshot_id, snapshot_seq, attempts)

Summary == \E current_ltp \in Prices \cup {None} : SummaryCall(current_ltp)

Next == Buy \/ Sell \/ Summary

Spec == Init /\ [][Next]_vars

\* ------------------------------------------------------------ the ledger, one file operation at a time
\* a file whose write did not complete: json.load raises JSONDecodeError on it
Truncated == [kind |-> "truncated"]
\* a file damaged from outside that is no JSON document (JSONDecodeError)
Undecodable == [kind |-> "undecodable"]
\* a file damaged from outside that is JSON but no object with a "balance"
\* (the ValueError raised by the validation of _load_portfolio)
NotLedger == [kind |-> "not_ledger"]

\* the trades of SaveSpec: one contract at one price
TradePrices == {1}
TradeSeqs == {1}
TradeSignalTypes == {"BUY_CALL"}

\* the process is not running: no manager object, no in-memory ledger
Down == [at |-> "down", op |-> "none", attempt |-> 0, result |-> [op |-> "none"]]

\* call op stands at step at of its save number attempt; it will return result
Running(at, op, attempt, result) ==
    [at |-> at, op |-> op, attempt |-> attempt, result |-> result]

\* with open(temp_file, 'w') as f: json.dump(portfolio, f, indent=2)
\* ok: the ledger is in the temp file; torn: the call returned but the content
\* is incomplete; open_failed: open raised and the path is as it was;
\* dump_failed: the write raised after open had truncated the file
WriteOutcomes == {"ok", "torn", "open_failed", "dump_failed"}

write_temp(p, temp, outcome) ==
    CASE outcome = "ok" -> [raised |-> FALSE, temp |-> Stored(p)]
      [] outcome = "torn" -> [raised |-> FALSE, temp |-> Truncated]
      [] outcome = "open_failed" -> [raised |-> TRUE, temp |-> temp]
      [] outcome = "dump_failed" -> [raised |-> TRUE, temp |-> Truncated]

\* saved_data = json.load(f); the balance read back must be the balance written
ReadOutcomes == {"ok", "io_error"}

read_back_raises_never(p, temp, outcome) == FALSE

read_back_raises(p, temp, outcome) ==
    \/ outcome = "io_error"
    \/ temp.kind # "ledger"
    \/ temp.data.balance # p.balance

\* temp_file.replace(self.portfolio_file): the rename happens whole or not at all
RenameOutcomes == {"ok", "failed"}

replace(temp, file, outcome) ==
    IF outcome = "ok"
    THEN [raised |-> FALSE, temp |-> Absent, file |-> temp]
    ELSE [raised |-> TRUE, temp |-> temp, file |-> file]

\* what _sync_to_git meets once the rename is done; "skip" is every way it gives
\* up (no repository, file untracked, commit, pull or push failure, timeout, git
\* missing, any exception)
SyncOutcomes == SaveOutcomes \ {"fail"}

\* if temp_file.exists(): temp_file.unlink(); the removal of a file this process
\* has just written is taken to succeed (an error of it would be swallowed)
unlink(temp) == Absent

\* after a save that returned False: Buy and Sell call _save_portfolio once
\* more, _load_portfolio does not
after_failure_no_retry(p) == [p EXCEPT !.at = "return"]

after_failure(p) ==
    IF p.op \in {"buy", "sell"} /\ p.attempt = 1
    THEN [p EXCEPT !.at = "write", !.attempt = 2]
    ELSE [p EXCEPT !.at = "return"]

\* the ledger the constructor ends with and where it came from; only a
\* JSONDecodeError on the canonical file leads to the backup, every other
\* exception to a new ledger
_load_portfolio(file, backup, initial) ==
    IF file.kind = "ledger"
    THEN [portfolio |-> file.data, source |-> "file"]
    ELSE IF file.kind \in {"truncated", "undecodable"} /\ backup.kind = "ledger"
    THEN [portfolio |-> backup.data, source |-> "backup"]
    ELSE [portfolio |-> NewPortfolio(initial), source |-> "new"]

\* buy() up to its first save: the in-memory ledger holds the trade before any
\* file is touched; a rejected call returns at once
StartBuy(signal_type, expiry, strike, ltp, snapshot_id, snapshot_seq) ==
    LET r == buy(portfolio, signal_type, expiry, strike, ltp, snapshot_id, snapshot_seq)
        result == [op |-> "buy", ok |-> r.ok, msg |-> r.msg]
    IN /\ pc.at = "idle"
       /\ portfolio' = r.portfolio
       /\ IF r.ok
          THEN /\ Len(portfolio.trade_history) < MaxTrades
               /\ pc' = Running("write", "buy", 1, result)
               /\ ret' = ret
          ELSE /\ pc' = pc
               /\ ret' = result
       /\ UNCHANGED <<initial_balance, portfolio_file, origin_main, temp_file, backup_file, df>>

\* sell() up to its first save
StartSell(ltp, snapshot_id, snapshot_seq) ==
    LET r == sell(portfolio, ltp, snapshot_id, snapshot_seq)
        result == [op |-> "sell", ok |-> r.ok, msg |-> r.msg]
    IN /\ pc.at = "idle"
       /\ portfolio' = r.portfolio
       /\ IF r.ok
          THEN /\ Len(portfolio.trade_history) < MaxTrades
               /\ pc' = Running("write", "sell", 1, result)
               /\ ret' = ret
          ELSE /\ pc' = pc
               /\ ret' = result
       /\ UNCHANGED <<initial_balance, portfolio_file, origin_main, temp_file, backup_file, df>>

\* _save_portfolio: the temp file is written
WriteTemp(outcome) ==
    LET w == write_temp(portfolio, temp_file, outcome)
    IN /\ pc.at = "write"
       /\ temp_file' = w.temp
       /\ pc' = [pc EXCEPT !.at = IF w.raised THEN "cleanup" ELSE "verify"]
       /\ UNCHANGED <<portfolio, initial_balance, portfolio_file, origin_main, ret, backup_file, df>>

\* _save_portfolio: the temp file is read back and its balance compared
ReadBack(outcome) ==
    /\ pc.at = "verify"
    /\ pc' = [pc EXCEPT !.at = IF read_back_raises(portfolio, temp_file, outcome)
                                THEN "cleanup" ELSE "rename"]
    /\ UNCHANGED <<portfolio, initial_balance, portfolio_file, origin_main, ret,
                   temp_file, backup_file, df>>

\* _save_portfolio: the temp file replaces the canonical file and self.portfolio
\* becomes the copy that was written (the same ledger)
Rename(outcome) ==
    LET r == replace(temp_file, portfolio_file, outcome)
    IN /\ pc.at = "rename"
       /\ temp_file' = r.temp
       /\ portfolio_file' = r.file
       /\ pc' = [pc EXCEPT !.at = IF r.raised THEN "cleanup" ELSE "sync"]
       /\ UNCHANGED <<portfolio, initial_balance, origin_main, ret, backup_file, df>>

Sync_fails_when_skipped(outcome) ==
    LET synced == _sync_to_git(portfolio_file, origin_main, outcome)
    IN /\ pc.at = "sync"
       /\ portfolio_file' = synced.file
       /\ origin_main' = synced.origin
       /\ ret' = IF outcome = "skip" THEN ret ELSE [op |-> "_save_portfolio", ok |-> TRUE]
       /\ pc' = [pc EXCEPT !.at = IF outcome = "skip" THEN "cleanup" ELSE "return"]
       /\ UNCHANGED <<portfolio, initial_balance, temp_file, backup_file, df>>

\* _save_portfolio: the git sync, whatever becomes of it, then return True
Sync(outcome) ==
    LET synced == _sync_to_git(portfolio_file, origin_main, outcome)
    IN /\ pc.at = "sync"
       /\ portfolio_file' = synced.file
       /\ origin_main' = synced.origin
       /\ ret' = [op |-> "_save_portfolio", ok |-> TRUE]
       /\ pc' = [pc EXCEPT !.at = "return"]
       /\ UNCHANGED <<portfolio, initial_balance, temp_file, backup_file, df>>

\* _save_portfolio: the except branch removes the temp file and returns False;
\* the caller saves once more or gives up
Cleanup ==
    /\ pc.at = "cleanup"
    /\ temp_file' = unlink(temp_file)
    /\ ret' = [op |-> "_save_portfolio", ok |-> FALSE]
    /\ pc' = after_failure(pc)
    /\ UNCHANGED <<portfolio, initial_balance, portfolio_file, origin_main, backup_file, df>>

\* buy(), sell() or the constructor returns
Return ==
    /\ pc.at = "return"
    /\ ret' = pc.result
    /\ pc' = Idle
    /\ UNCHANGED <<portfolio, initial_balance, portfolio_file, origin_main,
                   temp_file, backup_file, df>>

\* the process dies: memory is gone, the files stay; a temp file that was being
\* written may be left incomplete
Crash(torn) ==
    /\ pc.at # "down"
    /\ pc' = Down
    /\ portfolio' = NewPortfolio(initial_balance)
    /\ ret' = [op |-> "crash"]
    /\ temp_file' = IF pc.at = "write" /\ torn THEN Truncated ELSE temp_file
    /\ UNCHANGED <<initial_balance, portfolio_file, origin_main, backup_file, df>>

\* PortfolioManager(): _load_portfolio; a new ledger is saved before it is returned
Load ==
    LET l == _load_portfolio(portfolio_file, backup_file, initial_balance)
        result == [op |-> "load", source |-> l.source]
    IN /\ pc.at = "down"
       /\ portfolio' = l.portfolio
       /\ IF l.source = "new"
          THEN /\ pc' = Running("write", "load", 1, result)
               /\ ret' = ret
          ELSE /\ pc' = Idle
               /\ ret' = result
       /\ UNCHANGED <<initial_balance, portfolio_file, origin_main, temp_file, backup_file, df>>

\* while the process is down the canonical file is damaged from outside
Damage(damaged) ==
    /\ pc.at = "down"
    /\ portfolio_file.kind = "ledger"
    /\ portfolio_file' = damaged
    /\ UNCHANGED <<portfolio, initial_balance, origin_main, ret, pc, temp_file, backup_file, df>>

\* while the process is down the operator copies the canonical file to
\* portfolio.json.bak (the program itself never writes that file), or the copy
\* is damaged
Backup(damaged) ==
    /\ pc.at = "down"
    /\ portfolio_file.kind = "ledger"
    /\ backup_file' = IF damaged THEN Undecodable ELSE portfolio_file
    /\ UNCHANGED <<portfolio, initial_balance, portfolio_file, origin_main, ret, pc, temp_file, df>>

SaveNext ==
    \/ \E signal_type \in TradeSignalTypes, expiry \in Expiries, strike \in Strikes,
          ltp \in TradePrices, snapshot_id \in SnapshotIds, snapshot_seq \in TradeSeqs :
           StartBuy(signal_type, expiry, strike, ltp, snapshot_id, snapshot_seq)
    \/ \E ltp \in TradePrices, snapshot_id \in SnapshotIds, snapshot_seq \in TradeSeqs :
           StartSell(ltp, snapshot_id, snapshot_seq)
    \/ \E outcome \in WriteOutcomes : WriteTemp(outcome)
    \/ \E outcome \in ReadOutcomes : ReadBack(outcome)
    \/ \E outcome \in RenameOutcomes : Rename(outcome)
    \/ \E outcome \in SyncOutcomes : Sync(outcome)
    \/ Cleanup
    \/ Return
    \/ \E torn \in BOOLEAN : Crash(torn)
    \/ Load
    \/ \E damaged \in {Undecodable, NotLedger} : Damage(damaged)
    \/ \E damaged \in BOOLEAN : Backup(damaged)

SaveSpec == Init /\ [][SaveNext]_vars

\* ------------------------------------------------------------ the signal engine
\* A prepared table (the result of prepare_data) is the sequence of its
\* snapshots: df[seq + 1] is the snapshot with SNAPSHOT_SEQ = seq, its rows are
\* keyed by STRIKE, <<>> where the table has no row (seq, EXPIRY, strike). A
\* sequence without any row is not in the table; prepare_data numbers the
\* sequences without a hole, so generate_signals and evaluate_signal are given
\* tables with a row in every sequence.

\* key in df.index
has_key(table, seq, expiry, strike) ==
    /\ seq \in 0..(Len(table) - 1)
    /\ expiry = table[seq + 1].EXPIRY
    /\ strike \in DOMAIN table[seq + 1].rows
    /\ table[seq + 1].rows[strike] # <<>>

\* df.loc[key]
loc(table, seq, strike) == table[seq + 1].rows[strike][1]

\* the strikes of the rows of snapshot seq, in index order
RECURSIVE ascending(_)
ascending(S) ==
    IF S = {} THEN <<>>
    ELSE LET least == CHOOSE x \in S : \A y \in S : x <= y
         IN <<least>> \o ascending(S \ {least})

strikes_at(table, seq) ==
    ascending({k \in DOMAIN table[seq + 1].rows : table[seq + 1].rows[k] # <<>>})

\* sorted(df_r["SNAPSHOT_SEQ"].unique()): the sequences that have a row
snap_list(table) ==
    ascending({seq \in 0..(Len(table) - 1) :
                  \E k \in DOMAIN table[seq + 1].rows : table[seq + 1].rows[k] # <<>>})

\* current_idx = snap_list.index(current_snapshot_seq)
current_idx(table, current_snapshot_seq) ==
    Cardinality({i \in 1..Len(snap_list(table)) : snap_list(table)[i] < current_snapshot_seq})

\* the sequence before the current one, found by arithmetic
previous_sequence_minus_one(table, current_snapshot_seq) == current_snapshot_seq - 1

previous_sequence_first(table, current_snapshot_seq) == snap_list(table)[1]

\* snap_list[current_idx - 1], for current_idx > 0
previous_sequence(table, current_snapshot_seq) ==
    snap_list(table)[current_idx(table, current_snapshot_seq)]

\* ltp_col, oi_col of a position type
ltp_of(position_type, r) == IF position_type = "BUY_CALL" THEN r.c_LTP ELSE r.p_LTP
oi_of(position_type, r) == IF position_type = "BUY_CALL" THEN r.c_OI ELSE r.p_OI

\* the six entry conditions on the rows r0, r1, r2 of one contract, for the side
\* (BUY_CALL: c_LTP, c_OI; BUY_PUT: p_LTP, p_OI) whose direction the underlying took
entry_conditions_five_percent_move(side, r0, r1, r2, t2, last_entry_snap, cooldown) ==
    /\ ltp_of(side, r2) > ltp_of(side, r1)
    /\ ltp_of(side, r1) > ltp_of(side, r0)
    /\ ltp_of(side, r2) * 100 >= ltp_of(side, r0) * 105
    /\ oi_of(side, r2) * 100 >= oi_of(side, r1) * 105
    /\ ltp_of(side, r0) > 5
    /\ t2 - last_entry_snap > cooldown

entry_conditions_two_points(side, r0, r1, r2, t2, last_entry_snap, cooldown) ==
    /\ ltp_of(side, r2) > ltp_of(side, r0)
    /\ ltp_of(side, r2) * 100 >= ltp_of(side, r0) * 103
    /\ oi_of(side, r2) * 100 >= oi_of(side, r1) * 105
    /\ ltp_of(side, r0) > 5
    /\ t2 - last_entry_snap > cooldown

entry_conditions(side, r0, r1, r2, t2, last_entry_snap, cooldown) ==
    /\ ltp_of(side, r2) > ltp_of(side, r1)
    /\ ltp_of(side, r1) > ltp_of(side, r0)
    /\ ltp_of(side, r2) * 100 >= ltp_of(side, r0) * 103
    /\ oi_of(side, r2) * 100 >= oi_of(side, r1) * 105
    /\ ltp_of(side, r0) > 5
    /\ t2 - last_entry_snap > cooldown

\* no signal yet: the two dicts and the snapshots of the last entries
NoSignals ==
    [call |-> <<>>, put |-> <<>>,
     last_call_entry_snap |-> NO_BUY_SEQ, last_put_entry_snap |-> NO_BUY_SEQ]

\* dict[t2] = (exp, strike); a dict is the sequence of its items, a later item
\* for the same key replaces the earlier one
set_item(dict, t2, expiry, strike) ==
    SelectSeq(dict, LAMBDA item : item.key # t2)
        \o <<[key |-> t2, expiry |-> expiry, strike |-> strike]>>

in_dict(dict, t2) == \E i \in 1..Len(dict) : dict[i].key = t2

get_item(dict, t2) == dict[CHOOSE i \in 1..Len(dict) : dict[i].key = t2]

\* the body of the loop without the update of last_call_entry_snap and
\* last_put_entry_snap
check_strike_keeps_last_entry(table, found, t0, strike, cooldown) ==
    LET expiry == table[t0 + 1].EXPIRY
        t1 == t0 + 1
        t2 == t0 + 2
    IN IF ~(has_key(table, t0, expiry, strike) /\ has_key(table, t1, expiry, strike)
               /\ has_key(table, t2, expiry, strike))
       THEN found
       ELSE LET r0 == loc(table, t0, strike)
                r1 == loc(table, t1, strike)
                r2 == loc(table, t2, strike)
                u0 == table[t0 + 1].UNDERLYING_VALUE
                u2 == table[t2 + 1].UNDERLYING_VALUE
                call_hit ==
                    /\ u2 > u0
                    /\ entry_conditions("BUY_CALL", r0, r1, r2, t2,
                                        found.last_call_entry_snap, cooldown)
                put_hit ==
                    /\ u2 < u0
                    /\ entry_conditions("BUY_PUT", r0, r1, r2, t2,
                                        found.last_put_entry_snap, cooldown)
            IN [found EXCEPT
                   !.call = IF call_hit THEN set_item(found.call, t2, expiry, strike) ELSE @,
                   !.put = IF put_hit THEN set_item(found.put, t2, expiry, strike) ELSE @]

\* the body of "for strike in t0_strikes" for the window t0, t0 + 1, t0 + 2
check_strike(table, found, t0, strike, cooldown) ==
    LET expiry == table[t0 + 1].EXPIRY
        t1 == t0 + 1
        t2 == t0 + 2
    IN IF ~(has_key(table, t0, expiry, strike) /\ has_key(table, t1, expiry, strike)
               /\ has_key(table, t2, expiry, strike))
       THEN found
       ELSE LET r0 == loc(table, t0, strike)
                r1 == loc(table, t1, strike)
                r2 == loc(table, t2, strike)
                u0 == table[t0 + 1].UNDERLYING_VALUE
                u2 == table[t2 + 1].UNDERLYING_VALUE
                call_hit ==
                    /\ u2 > u0
                    /\ entry_conditions("BUY_CALL", r0, r1, r2, t2,
                                        found.last_call_entry_snap, cooldown)
                put_hit ==
                    /\ u2 < u0
                    /\ entry_conditions("BUY_PUT", r0, r1, r2, t2,
                                        found.last_put_entry_snap, cooldown)
            IN [call |-> IF call_hit THEN set_item(found.call, t2, expiry, strike)
                         ELSE found.call,
                put |-> IF put_hit THEN set_item(found.put, t2, expiry, strike)
                        ELSE found.put,
                last_call_entry_snap |-> IF call_hit THEN t2 ELSE found.last_call_entry_snap,
                last_put_entry_snap |-> IF put_hit THEN t2 ELSE found.last_put_entry_snap]

RECURSIVE scan_strikes(_, _, _, _, _)
scan_strikes(table, found, t0, strikes, cooldown) ==
    IF strikes = <<>> THEN found
    ELSE scan_strikes(table, check_strike(table, found, t0, Head(strikes), cooldown),
                      t0, Tail(strikes), cooldown)

\* for idx in range(len(snap_list) - 2)
RECURSIVE scan_windows(_, _, _, _)
scan_windows(table, found, t0, cooldown) ==
    IF t0 > Len(table) - 3 THEN found
    ELSE scan_windows(table,
                      scan_strikes(table, found, t0, strikes_at(table, t0), cooldown),
                      t0 + 1, cooldown)

generate_signals(table, cooldown) ==
    IF Len(table) < 3 THEN NoSignals
    ELSE scan_windows(table, NoSignals, 0, cooldown)

\* ((curr_ltp - entry_price) / entry_price) * 100 as the reasons print it
\* (:.2f), in hundredths of a percent. curr_ltp is a numpy scalar read from the
\* table: with entry_price 0 the division gives inf, or nan for 0 / 0, with a
\* RuntimeWarning and no exception.
exit_pnl_pct(curr_ltp, entry_price) ==
    IF entry_price = 0
    THEN IF curr_ltp = 0 THEN "nan" ELSE "inf"
    ELSE (2 * (curr_ltp - entry_price) * 10000 + entry_price) \div (2 * entry_price)

\* curr_ltp <= entry_price * (1 - stop_loss_pct)
stop_loss_hit_strict(curr_ltp, entry_price, stop_loss_pct) ==
    curr_ltp * 100 < entry_price * (100 - stop_loss_pct)

stop_loss_hit(curr_ltp, entry_price, stop_loss_pct) ==
    curr_ltp * 100 <= entry_price * (100 - stop_loss_pct)

\* a hold that is met as soon as the position is seen again
minimum_hold_met_at_once(snapshots_held, min_hold_snaps) == snapshots_held >= 0

\* not (snapshots_held < min_hold_snaps)
minimum_hold_met_after(snapshots_held, min_hold_snaps) ==
    snapshots_held > min_hold_snaps

minimum_hold_met(snapshots_held, min_hold_snaps) ==
    ~(snapshots_held < min_hold_snaps)

\* (should_exit, reason, current_ltp)
exit_decision(should_exit, reason, current_ltp) ==
    [should_exit |-> should_exit, reason |-> reason, ltp |-> current_ltp]

evaluate_exit_condition(table, position_type, position_expiry, position_strike, entry_price, entry_snapshot_seq, current_snapshot_seq, stop_loss_pct, min_hold_snaps) ==
    IF ~has_key(table, current_snapshot_seq, position_expiry, position_strike)
    THEN exit_decision(FALSE, <<"Position not found in current snapshot">>, None)
    ELSE IF position_type \notin {"BUY_CALL", "BUY_PUT"}
    THEN exit_decision(FALSE, <<"Unknown position type", position_type>>, None)
    ELSE
    LET curr == loc(table, current_snapshot_seq, position_strike)
        curr_ltp == ltp_of(position_type, curr)
        curr_oi == oi_of(position_type, curr)
        pnl_pct == exit_pnl_pct(curr_ltp, entry_price)
        snapshots_held == current_snapshot_seq - entry_snapshot_seq
        prev_snapshot_seq == previous_sequence(table, current_snapshot_seq)
    IN IF stop_loss_hit(curr_ltp, entry_price, stop_loss_pct)
       THEN exit_decision(TRUE, <<"Stop loss", pnl_pct>>, curr_ltp)
       ELSE IF ~minimum_hold_met(snapshots_held, min_hold_snaps)
       THEN exit_decision(FALSE,
                          <<"Minimum hold not met", snapshots_held, min_hold_snaps>>,
                          curr_ltp)
       ELSE IF ~(current_idx(table, current_snapshot_seq) > 0)
       THEN exit_decision(FALSE, <<"No previous snapshot for comparison">>, curr_ltp)
       ELSE IF /\ has_key(table, prev_snapshot_seq, position_expiry, position_strike)
               /\ curr_ltp < ltp_of(position_type, loc(table, prev_snapshot_seq, position_strike))
               /\ curr_oi < oi_of(position_type, loc(table, prev_snapshot_seq, position_strike))
       THEN exit_decision(TRUE, <<"Sell signal: Price and OI falling", pnl_pct>>, curr_ltp)
       ELSE exit_decision(FALSE, <<"Hold", pnl_pct, snapshots_held>>, curr_ltp)

\* len(snap_seqs) < 3
too_few_sequences_below_two(table) == Len(table) < 2

too_few_sequences(table) == Len(table) < 3

\* "SELL_CALL" if position_type == "BUY_CALL" else "SELL_PUT"
sell_signal_swapped(position_type) ==
    IF position_type = "BUY_CALL" THEN "SELL_PUT" ELSE "SELL_CALL"

sell_signal(position_type) ==
    IF position_type = "BUY_CALL" THEN "SELL_CALL" ELSE "SELL_PUT"

no_signal(reason) == [signal |-> "NO_SIGNAL", reason |-> reason]

\* the BUY result with the LTP of the first row of the window
buy_signal_entry_row(table, side, item, latest_seq) ==
    [signal |-> side,
     snapshot_seq |-> latest_seq,
     expiry |-> item.expiry,
     strike |-> item.strike,
     ltp |-> ltp_of(side, loc(table, latest_seq - 2, item.strike)),
     snapshot_id |-> table[latest_seq + 1].SNAPSHOT_ID]

\* the BUY result for the contract the dict holds at latest_seq
buy_signal(table, side, item, latest_seq) ==
    [signal |-> side,
     snapshot_seq |-> latest_seq,
     expiry |-> item.expiry,
     strike |-> item.strike,
     ltp |-> ltp_of(side, loc(table, latest_seq, item.strike)),
     snapshot_id |-> table[latest_seq + 1].SNAPSHOT_ID]

\* a is the record of the keyword arguments; "" and 0 are the falsy values of
\* position_type, position_expiry and position_strike
evaluate_signal(table, a) ==
    IF too_few_sequences(table)
    THEN no_signal(<<"Less than 3 snapshot sequences">>)
    ELSE
    LET latest_seq == Len(table) - 1
        exit == evaluate_exit_condition(table, a.position_type, a.position_expiry,
                                        a.position_strike, a.entry_price,
                                        a.entry_snapshot_seq, latest_seq,
                                        DEFAULT_STOP_LOSS_PCT, DEFAULT_MIN_HOLD_SNAPS)
        snapshots_since_last_buy == latest_seq - a.last_buy_snapshot_seq
        found == generate_signals(table, DEFAULT_COOLDOWN)
    IN IF /\ a.has_open_position
          /\ a.position_type # "" /\ a.position_expiry # "" /\ a.position_strike # 0
          /\ a.entry_price # None /\ a.entry_snapshot_seq # None
       THEN IF exit.should_exit
            THEN [signal |-> sell_signal(a.position_type),
                  snapshot_seq |-> latest_seq,
                  expiry |-> a.position_expiry,
                  strike |-> a.position_strike,
                  ltp |-> exit.ltp,
                  snapshot_id |-> table[latest_seq + 1].SNAPSHOT_ID,
                  reason |-> exit.reason]
            ELSE no_signal(exit.reason)
       ELSE IF a.has_open_position
       THEN no_signal(<<"Position already open">>)
       ELSE IF a.last_buy_snapshot_seq # None /\ snapshots_since_last_buy <= a.cooldown
       THEN no_signal(<<"Cooldown active", snapshots_since_last_buy, a.cooldown>>)
       ELSE IF in_dict(found.call, latest_seq)
       THEN buy_signal(table, "BUY_CALL", get_item(found.call, latest_seq), latest_seq)
       ELSE IF in_dict(found.put, latest_seq)
       THEN buy_signal(table, "BUY_PUT", get_item(found.put, latest_seq), latest_seq)
       ELSE no_signal(<<"No call/put trigger on latest snapshot">>)

\* ------------------------------------------------------------ the signal engine on tables
\* the rows of the watched contract: the put side moves against the call side
LTPs == {49, 50, 51, 52}
OIs == {100, 105}

Row(ltp, oi) ==
    [c_LTP |-> ltp, c_OI |-> oi, p_LTP |-> (49 + 52) - ltp, p_OI |-> (100 + 105) - oi]

\* the watched contract at one snapshot: one of the rows, or no row
OptRows == {<<>>} \cup {<<Row(ltp, oi)>> : ltp \in LTPs, oi \in OIs}

\* a second strike that is quoted in every snapshot and never moves
QuietStrikes == {24050}
QuietRow == [c_LTP |-> 51, c_OI |-> 100, p_LTP |-> 51, p_OI |-> 100]

\* the underlying rises, stays or falls by this much from snapshot to snapshot
UnderlyingSteps == {0 - 10, 0, 10}

Snapshot(seq, step, watched) ==
    [SNAPSHOT_ID |-> 101 + seq,
     EXPIRY |-> "2025-01-30",
     UNDERLYING_VALUE |-> 24000 + seq * step,
     rows |-> [strike \in Strikes \cup QuietStrikes |->
                  IF strike \in Strikes THEN watched ELSE <<QuietRow>>]]

\* prepared tables of one, two and three snapshots
TableLengths == 1..3

Tables ==
    UNION {{[i \in 1..n |-> Snapshot(i - 1, step, watched[i])] :
               step \in UnderlyingSteps, watched \in [1..n -> OptRows]} :
           n \in TableLengths}

\* the position contexts of the calls
PositionTypes == {"BUY_CALL", "BUY_PUT", "BUY_FUT"}
EntryPrices == {98, 100}
EntrySeqs == {0 - 7, 0 - 5, 0}

\* evaluate_signal for an open position, as the monitor calls it; "" is a
\* position record without a type
OpenContexts ==
    [has_open_position : {TRUE},
     position_type : PositionTypes \cup {""},
     position_expiry : Expiries,
     position_strike : Strikes,
     entry_price : EntryPrices,
     entry_snapshot_seq : EntrySeqs,
     last_buy_snapshot_seq : {None},
     cooldown : {DEFAULT_COOLDOWN}]

\* evaluate_signal with no open position
FlatContexts ==
    [has_open_position : {FALSE},
     position_type : {""},
     position_expiry : {""},
     position_strike : {0},
     entry_price : {None},
     entry_snapshot_seq : {None},
     last_buy_snapshot_seq : {None, NO_BUY_SEQ, 0},
     cooldown : {DEFAULT_COOLDOWN}]

SignalInit ==
    /\ df \in Tables
    /\ ret = [op |-> "init"]
    /\ initial_balance = DEFAULT_INITIAL_BALANCE
    /\ portfolio = NewPortfolio(initial_balance)
    /\ portfolio_file = Absent
    /\ origin_main = Untracked
    /\ pc = Idle
    /\ temp_file = Absent
    /\ backup_file = Absent

\* one call on a table: the engine only reads the table, a later call on it
\* would see what this one sees
EvaluateSignal(a) ==
    /\ ret.op = "init"
    /\ ret' = [op |-> "evaluate_signal", args |-> a, result |-> evaluate_signal(df, a)]
    /\ UNCHANGED <<portfolio, initial_balance, portfolio_file, origin_main, save_vars, df>>

EvaluateExit(position_type, position_expiry, position_strike, entry_price, entry_snapshot_seq, current_snapshot_seq) ==
    /\ ret.op = "init"
    /\ ret' = [op |-> "evaluate_exit_condition",
               args |-> [position_type |-> position_type,
                         position_expiry |-> position_expiry,
                         position_strike |-> position_strike,
                         entry_price |-> entry_price,
                         entry_snapshot_seq |-> entry_snapshot_seq,
                         current_snapshot_seq |-> current_snapshot_seq],
               result |-> evaluate_exit_condition(
                              df, position_type, position_expiry, position_strike,
                              entry_price, entry_snapshot_seq, current_snapshot_seq,
                              DEFAULT_STOP_LOSS_PCT, DEFAULT_MIN_HOLD_SNAPS)]
    /\ UNCHANGED <<portfolio, initial_balance, portfolio_file, origin_main, save_vars, df>>

SignalNext ==
    \/ \E a \in OpenContexts \cup FlatContexts : EvaluateSignal(a)
    \/ \E position_type \in PositionTypes, position_expiry \in Expiries,
          position_strike \in Strikes, entry_price \in EntryPrices,
          entry_snapshot_seq \in EntrySeqs, current_snapshot_seq \in 0..2 :
           EvaluateExit(position_type, position_expiry, position_strike, entry_price,
                        entry_snapshot_seq, current_snapshot_seq)

SignalSpec == SignalInit /\ [][SignalNext]_vars

\* ------------------------------------------------------------ the exit evaluation on sparse tables
\* Tables whose sequences have holes: the sequences 0, 3 and 9, with and
\* without the sequence 8; at each of them the watched contract has one of six
\* rows or no row, the second strike is always quoted.
SparseTables ==
    {[i \in 1..10 |->
         IF i - 1 \in DOMAIN watched
         THEN Snapshot(i - 1, 0, watched[i - 1])
         ELSE [Snapshot(i - 1, 0, <<>>) EXCEPT
                  !.rows = [strike \in Strikes \cup QuietStrikes |-> <<>>]]] :
        watched \in UNION {[present -> {<<>>} \cup {<<Row(ltp, oi)>> : ltp \in {50, 51, 52},
                                                                       oi \in OIs}] :
                              present \in {{0, 3, 9}, {0, 3, 8, 9}}}}

SparseInit ==
    /\ df \in SparseTables
    /\ ret = [op |-> "init"]
    /\ initial_balance = DEFAULT_INITIAL_BALANCE
    /\ portfolio = NewPortfolio(initial_balance)
    /\ portfolio_file = Absent
    /\ origin_main = Untracked
    /\ pc = Idle
    /\ temp_file = Absent
    /\ backup_file = Absent

\* the exit evaluation at the sequences 0, 3 and 9 for a position entered
\* seven sequences before the first one, or at sequence 3
SparseNext ==
    \E position_type \in SignalTypes, position_strike \in Strikes,
       entry_price \in EntryPrices, entry_snapshot_seq \in {0 - 7, 3},
       current_snapshot_seq \in {0, 3, 9} :
        EvaluateExit(position_type, "2025-01-30", position_strike, entry_price,
                     entry_snapshot_seq, current_snapshot_seq)

SparseSpec == SparseInit /\ [][SparseNext]_vars

\* ------------------------------------------------------------ the scan on several windows
\* Tables of three and four snapshots with two moving contracts: the rows of a
\* contract follow a path of LTPs and a path of OIs on one side, the other side
\* moves against it; at the snapshots in gaps the contract has no row.
UnderlyingPaths ==
    {<<100, 101, 103, 104>>, <<104, 103, 101, 100>>,
     <<100, 103, 101, 99>>, <<100, 101, 100, 101>>}

\* rising, a dip at the third snapshot, a rise short of 3%, a rise of exactly 3%,
\* a price that starts at the floor of 5, a price that starts at 0
LtpPaths ==
    {<<100, 102, 104, 106>>, <<100, 105, 104, 108>>, <<100, 101, 102, 106>>,
     <<100, 101, 103, 105>>, <<5, 6, 7, 8>>, <<0, 6, 7, 8>>}

\* growing, a growth of exactly 5% once, a growth short of 5% at first, no
\* open interest at the second snapshot
OiPaths ==
    {<<100, 110, 120, 130>>, <<100, 100, 105, 105>>, <<100, 100, 104, 110>>,
     <<100, 0, 5, 130>>}

\* the contract of the lowest strike takes every path, the second one a few
FirstContracts ==
    [side : SignalTypes, ltps : LtpPaths, ois : OiPaths, gaps : {{}, {0}, {1}, {2}}]

SecondContracts ==
    [side : SignalTypes,
     ltps : {<<100, 102, 104, 106>>, <<100, 105, 104, 108>>},
     ois : {<<100, 110, 120, 130>>, <<100, 100, 104, 110>>},
     gaps : {{}, {1}}]

\* the row of a contract at snapshot seq
ContractRow(c, seq) ==
    IF seq \in c.gaps THEN <<>>
    ELSE LET ltp == c.ltps[seq + 1]
             oi == c.ois[seq + 1]
         IN IF c.side = "BUY_CALL"
            THEN <<[c_LTP |-> ltp, c_OI |-> oi, p_LTP |-> 210 - ltp, p_OI |-> 230 - oi]>>
            ELSE <<[c_LTP |-> 210 - ltp, c_OI |-> 230 - oi, p_LTP |-> ltp, p_OI |-> oi]>>

ScanTable(n, underlying, first, second) ==
    [i \in 1..n |->
        [SNAPSHOT_ID |-> 100 + i,
         EXPIRY |-> "2025-01-30",
         UNDERLYING_VALUE |-> underlying[i],
         rows |-> [strike \in Strikes \cup QuietStrikes |->
                      IF strike \in Strikes THEN ContractRow(first, i - 1)
                      ELSE ContractRow(second, i - 1)]]]

ScanTables ==
    {ScanTable(n, underlying, contracts[1], contracts[2]) :
        n \in 3..4, underlying \in UnderlyingPaths,
        contracts \in {c \in FirstContracts \X SecondContracts :
                          c[1].gaps \cap c[2].gaps = {}}}

\* the cooldown argument of generate_signals and of evaluate_signal
Cooldowns == {1, 2, DEFAULT_COOLDOWN}

\* evaluate_signal with no open position, as the monitor calls it after a sell
\* or with no position, for several cooldowns
ScanContexts ==
    [has_open_position : {FALSE},
     position_type : {""},
     position_expiry : {""},
     position_strike : {0},
     entry_price : {None},
     entry_snapshot_seq : {None},
     last_buy_snapshot_seq : {None, 0, 1},
     cooldown : Cooldowns]

ScanInit ==
    /\ df \in ScanTables
    /\ ret = [op |-> "init"]
    /\ initial_balance = DEFAULT_INITIAL_BALANCE
    /\ portfolio = NewPortfolio(initial_balance)
    /\ portfolio_file = Absent
    /\ origin_main = Untracked
    /\ pc = Idle
    /\ temp_file = Absent
    /\ backup_file = Absent

GenerateSignals(cooldown) ==
    /\ ret.op = "init"
    /\ ret' = [op |-> "generate_signals", cooldown |-> cooldown,
               result |-> generate_signals(df, cooldown)]
    /\ UNCHANGED <<portfolio, initial_balance, portfolio_file, origin_main, save_vars, df>>

ScanNext ==
    \/ \E cooldown \in Cooldowns : GenerateSignals(cooldown)
    \/ \E a \in ScanContexts : EvaluateSignal(a)
    \/ \E position_type \in SignalTypes, position_strike \in Strikes,
          entry_snapshot_seq \in EntrySeqs, current_snapshot_seq \in 0..2 :
           EvaluateExit(position_type, "2025-01-30", position_strike, 0,
                        entry_snapshot_seq, current_snapshot_seq)

ScanSpec == ScanInit /\ [][ScanNext]_vars

\* ------------------------------------------------------------ preparation
\* A raw batch (the DataFrame load_csv returns) is its set of columns and the
\* sequence of its rows in file order. DOWNLOAD_DATE is a day number and
\* DOWNLOAD_TIME the seconds since midnight; a row carries its value columns
\* unchanged through the preparation.
required_cols ==
    {"DOWNLOAD_DATE", "DOWNLOAD_TIME", "SNAPSHOT_ID", "EXPIRY", "STRIKE",
     "c_OI", "c_LTP", "p_OI", "p_LTP", "UNDERLYING_VALUE"}

\* required_cols of aggregate_to_3min_snapshots
aggregation_cols ==
    required_cols \cup {"c_CHNG_IN_OI", "c_VOLUME", "p_CHNG_IN_OI", "p_VOLUME"}

\* date and time combined
TIMESTAMP(r) == r.DOWNLOAD_DATE * 86400 + r.DOWNLOAD_TIME

\* the order a sort leaves between rows of equal keys: the sort by several
\* columns is stable ("first_seen"), the default sort by one column is not and
\* may keep or reverse the order it finds
TieOrders == {"first_seen", "last_seen"}

\* the rows with the column TIMESTAMP
with_timestamp(rows) == [i \in 1..Len(rows) |-> rows[i] @@ [TIMESTAMP |-> TIMESTAMP(rows[i])]]

\* rows.sort_values(by): a row sorts before another when it is less in the
\* first column of by in which the two differ
sort_values(rows, by, ties) ==
    LET n == Len(rows)
        Less(a, b) ==
            \E k \in 1..Len(by) :
                /\ a[by[k]] < b[by[k]]
                /\ \A j \in 1..(k - 1) : a[by[j]] = b[by[j]]
        before(j, i) ==
            \/ Less(rows[j], rows[i])
            \/ /\ ~Less(rows[i], rows[j])
               /\ IF ties = "first_seen" THEN j < i ELSE j > i
        rank(i) == Cardinality({j \in 1..n : before(j, i)}) + 1
    IN [k \in 1..n |-> rows[CHOOSE i \in 1..n : rank(i) = k]]

\* keys.drop_duplicates(): the first occurrence of each key, in order
drop_duplicates(keys) ==
    LET kept == {i \in 1..Len(keys) : \A j \in 1..(i - 1) : keys[j] # keys[i]}
        nth(k) == CHOOSE i \in kept : Cardinality({j \in kept : j < i}) = k - 1
    IN [k \in 1..Cardinality(kept) |-> keys[nth(k)]]

\* snap_keys: the distinct (DOWNLOAD_DATE, SNAPSHOT_ID, TIMESTAMP) of the rows
\* sorted by TIMESTAMP and STRIKE, then sorted by TIMESTAMP; SNAPSHOT_SEQ of a
\* key is its position less one
snap_keys(rows, ties) ==
    LET df_sorted == sort_values(with_timestamp(rows), <<"TIMESTAMP", "STRIKE">>, "first_seen")
        keys == [i \in 1..Len(rows) |->
                    [DOWNLOAD_DATE |-> df_sorted[i].DOWNLOAD_DATE,
                     SNAPSHOT_ID |-> df_sorted[i].SNAPSHOT_ID,
                     TIMESTAMP |-> df_sorted[i].TIMESTAMP]]
    IN sort_values(drop_duplicates(keys), <<"TIMESTAMP">>, ties)

\* df.merge(snap_keys[[DOWNLOAD_DATE, SNAPSHOT_ID, SNAPSHOT_SEQ]], on=[DOWNLOAD_DATE,
\* SNAPSHOT_ID], how="left"): a row is joined to every key of its date and id
merge_on_id_only(row, key) == row.SNAPSHOT_ID = key.SNAPSHOT_ID

merge_on(row, key) ==
    /\ row.DOWNLOAD_DATE = key.DOWNLOAD_DATE
    /\ row.SNAPSHOT_ID = key.SNAPSHOT_ID

\* the prepared table is the set of its rows, each with TIMESTAMP and
\* SNAPSHOT_SEQ; set_index(...).sort_index() orders them by (SNAPSHOT_SEQ,
\* EXPIRY, STRIKE). A batch without a required column raises ValueError.
prepare_data_skips_validation(batch, ties) ==
    LET keys == snap_keys(batch.rows, ties)
        joined == {pair \in (1..Len(batch.rows)) \X (1..Len(keys)) :
                      merge_on(batch.rows[pair[1]], keys[pair[2]])}
    IN [error |-> "",
        table |-> {batch.rows[pair[1]] @@
                       [TIMESTAMP |-> TIMESTAMP(batch.rows[pair[1]]),
                        SNAPSHOT_SEQ |-> pair[2] - 1] : pair \in joined}]

prepare_data(batch, ties) ==
    IF ~(required_cols \subseteq batch.columns)
    THEN [error |-> "ValueError", table |-> {}]
    ELSE LET keys == snap_keys(batch.rows, ties)
             joined == {pair \in (1..Len(batch.rows)) \X (1..Len(keys)) :
                           merge_on(batch.rows[pair[1]], keys[pair[2]])}
         IN [error |-> "",
             table |-> {batch.rows[pair[1]] @@
                            [TIMESTAMP |-> TIMESTAMP(batch.rows[pair[1]]),
                             SNAPSHOT_SEQ |-> pair[2] - 1] : pair \in joined}]

\* one row for each window of 180 seconds counted from the first timestamp:
\* the last row of the window sorted by TIMESTAMP; then prepare_data
aggregate_to_3min_snapshots(batch, ties) ==
    IF ~(aggregation_cols \subseteq batch.columns)
    THEN [error |-> "ValueError", table |-> {}]
    ELSE LET df_r == sort_values(with_timestamp(batch.rows), <<"TIMESTAMP">>, ties)
             t0 == df_r[1].TIMESTAMP
             WINDOW(r) == (r.TIMESTAMP - t0) \div 180
             windows == ascending({WINDOW(df_r[i]) : i \in 1..Len(df_r)})
             last_row(window_id) ==
                 LET window_data == SelectSeq(df_r, LAMBDA r : WINDOW(r) = window_id)
                     sorted == sort_values(window_data, <<"TIMESTAMP">>, ties)
                 IN [c \in DOMAIN batch.rows[1] |-> sorted[Len(sorted)][c]]
             aggregated_rows == [k \in 1..Len(windows) |-> last_row(windows[k])]
         IN prepare_data([columns |-> aggregation_cols, rows |-> aggregated_rows], ties)

\* the rows a batch is made of: two days, three times of day (the third in
\* the second window of 180 seconds), two snapshot ids, two strikes
RawRows ==
    [DOWNLOAD_DATE : {1, 2}, DOWNLOAD_TIME : {0, 60, 200}, SNAPSHOT_ID : {101, 102},
     EXPIRY : Expiries, STRIKE : {24000, 24050}]

\* batches of one to three different rows in every file order, with all the
\* columns, with the columns of prepare_data only, and with c_OI missing
Batches ==
    [columns : {aggregation_cols, required_cols, required_cols \ {"c_OI"}},
     rows : {rows \in UNION {[1..n -> RawRows] : n \in 1..3} :
                \A i, j \in 1..Len(rows) : rows[i] = rows[j] => i = j}]

PrepInit ==
    /\ df \in Batches
    /\ ret = [op |-> "init"]
    /\ initial_balance = DEFAULT_INITIAL_BALANCE
    /\ portfolio = NewPortfolio(initial_balance)
    /\ portfolio_file = Absent
    /\ origin_main = Untracked
    /\ pc = Idle
    /\ temp_file = Absent
    /\ backup_file = Absent

PrepareData(ties) ==
    /\ ret.op = "init"
    /\ ret' = [op |-> "prepare_data", ties |-> ties, result |-> prepare_data(df, ties)]
    /\ UNCHANGED <<portfolio, initial_balance, portfolio_file, origin_main, save_vars, df>>

Aggregate(ties) ==
    /\ ret.op = "init"
    /\ ret' = [op |-> "aggregate_to_3min_snapshots", ties |-> ties,
               result |-> aggregate_to_3min_snapshots(df, ties)]
    /\ UNCHANGED <<portfolio, initial_balance, portfolio_file, origin_main, save_vars, df>>

PrepNext ==
    \/ \E ties \in TieOrders : PrepareData(ties)
    \/ \E ties \in TieOrders : Aggregate(ties)

PrepSpec == PrepInit /\ [][PrepNext]_vars

\* ------------------------------------------------------------ the poll loop
\* The monitor saves the rows of the last snapshots to a CSV file and runs one
\* cycle on it: a new ledger instance is loaded from the ledger file, the rows
\* are prepared, the open position is evaluated for an exit and, with no
\* position open, the table for an entry. df is the latest CSV file.

\* save_results: the CSV rows of the snapshots of a table, snapshot by
\* snapshot, taken 180 seconds apart on one day
csv_rows(table) ==
    LET keys == {key \in (1..Len(table)) \X (Strikes \cup QuietStrikes) :
                    table[key[1]].rows[key[2]] # <<>>}
        before(a, b) == a[1] < b[1] \/ (a[1] = b[1] /\ a[2] < b[2])
        nth(n) == CHOOSE a \in keys : Cardinality({b \in keys : before(b, a)}) = n - 1
        row(a) == table[a[1]].rows[a[2]][1] @@
                      [DOWNLOAD_DATE |-> 1,
                       DOWNLOAD_TIME |-> 180 * a[1],
                       SNAPSHOT_ID |-> table[a[1]].SNAPSHOT_ID,
                       EXPIRY |-> table[a[1]].EXPIRY,
                       STRIKE |-> a[2],
                       UNDERLYING_VALUE |-> table[a[1]].UNDERLYING_VALUE]
    IN [n \in 1..Cardinality(keys) |-> row(nth(n))]

\* set_index([SNAPSHOT_SEQ, EXPIRY, STRIKE]).sort_index(): the prepared rows as
\* the table the signal engine reads, snapshot by snapshot
set_index(rows) ==
    LET at(seq) == {r \in rows : r.SNAPSHOT_SEQ = seq}
        head(seq) == CHOOSE r \in at(seq) : TRUE
    IN [i \in 1..Cardinality({r.SNAPSHOT_SEQ : r \in rows}) |->
           [SNAPSHOT_ID |-> head(i - 1).SNAPSHOT_ID,
            EXPIRY |-> head(i - 1).EXPIRY,
            UNDERLYING_VALUE |-> head(i - 1).UNDERLYING_VALUE,
            rows |-> [strike \in Strikes \cup QuietStrikes |->
                         IF \E r \in at(i - 1) : r.STRIKE = strike
                         THEN <<CHOOSE r \in at(i - 1) : r.STRIKE = strike>>
                         ELSE <<>>]]]

\* if ltp: None and 0 are not prices
truthy(ltp) == ltp # None /\ ltp # 0

\* the exit half of a cycle (lines 606-659): with an open position the exit
\* is evaluated and a SELL signal with a price is executed and saved
exit_step(p, file, origin, table, latest_snapshot_id, attempts) ==
    LET held(signal) ==
            [portfolio |-> p, file |-> file, origin |-> origin,
             signal |-> signal, called |-> FALSE, ok |-> FALSE]
        saved(signal, r, save) ==
            [portfolio |-> r.portfolio,
             file |-> IF r.ok THEN save.file ELSE file,
             origin |-> IF r.ok THEN save.origin ELSE origin,
             signal |-> signal, called |-> TRUE, ok |-> r.ok]
        sold(signal, r) ==
            saved(signal, r, save_with_retry(r.portfolio, file, origin,
                                             attempts[1], attempts[2]))
        decide(signal_result) ==
            IF signal_result.signal \in {"SELL_CALL", "SELL_PUT"}
            THEN IF truthy(signal_result.ltp)
                 THEN sold(signal_result.signal,
                           sell(p, signal_result.ltp, latest_snapshot_id, Len(table) - 1))
                 ELSE held(signal_result.signal)
            ELSE held(signal_result.signal)
        evaluate(open_position) ==
            decide(evaluate_signal(table,
                       [has_open_position |-> TRUE,
                        position_type |-> open_position.type,
                        position_expiry |-> open_position.expiry,
                        position_strike |-> open_position.strike,
                        entry_price |-> open_position.entry_price,
                        entry_snapshot_seq |-> open_position.snapshot_seq,
                        last_buy_snapshot_seq |-> None,
                        cooldown |-> DEFAULT_COOLDOWN]))
        at(i) == IF i = 0 THEN held("") ELSE evaluate(p.positions[i])
    IN at(get_open_position(p))

\* the entry half of a cycle (lines 661-701): with no position open the table
\* is evaluated for an entry and a BUY signal with a price is executed and saved
entry_step(p, file, origin, table, latest_snapshot_id, attempts) ==
    LET flat(signal) ==
            [portfolio |-> p, file |-> file, origin |-> origin,
             signal |-> signal, called |-> FALSE, ok |-> FALSE]
        saved(signal, r, save) ==
            [portfolio |-> r.portfolio,
             file |-> IF r.ok THEN save.file ELSE file,
             origin |-> IF r.ok THEN save.origin ELSE origin,
             signal |-> signal, called |-> TRUE, ok |-> r.ok]
        bought(signal, r) ==
            saved(signal, r, save_with_retry(r.portfolio, file, origin,
                                             attempts[1], attempts[2]))
        decide(signal_result) ==
            IF signal_result.signal \in {"BUY_CALL", "BUY_PUT"}
            THEN IF truthy(signal_result.ltp)
                 THEN bought(signal_result.signal,
                             buy(p, signal_result.signal, signal_result.expiry,
                                 signal_result.strike, signal_result.ltp,
                                 latest_snapshot_id, signal_result.snapshot_seq))
                 ELSE flat(signal_result.signal)
            ELSE flat(signal_result.signal)
    IN IF has_open_position(p) THEN flat("")
       ELSE decide(evaluate_signal(table,
                       [has_open_position |-> FALSE,
                        position_type |-> "",
                        position_expiry |-> "",
                        position_strike |-> 0,
                        entry_price |-> None,
                        entry_snapshot_seq |-> None,
                        last_buy_snapshot_seq |-> get_last_buy_snapshot_seq(p),
                        cooldown |-> DEFAULT_COOLDOWN]))

\* one cycle: what it leaves in memory and in the files, the error it caught
\* and logged (except Exception, line 705), the signals and the trades
process_signals_and_trades(file, backup, origin, initial, batch, latest_snapshot_id, ties, sell_attempts, buy_attempts) ==
    LET failed(loaded, error) ==
            [error |-> error, loaded |-> loaded, portfolio |-> loaded,
             file |-> file, origin |-> origin,
             exit_signal |-> "", sell_called |-> FALSE, sell_ok |-> FALSE,
             entry_signal |-> "", buy_called |-> FALSE, buy_ok |-> FALSE]
        finished(loaded, exit, entry) ==
            [error |-> "", loaded |-> loaded, portfolio |-> entry.portfolio,
             file |-> entry.file, origin |-> entry.origin,
             exit_signal |-> exit.signal, sell_called |-> exit.called,
             sell_ok |-> exit.ok,
             entry_signal |-> entry.signal, buy_called |-> entry.called,
             buy_ok |-> entry.ok]
        entered(loaded, table, exit) ==
            finished(loaded, exit,
                     entry_step(exit.portfolio, exit.file, exit.origin, table,
                                latest_snapshot_id, buy_attempts))
        traded(loaded, table) ==
            entered(loaded, table,
                    exit_step(loaded, file, origin, table, latest_snapshot_id,
                              sell_attempts))
        cycle(loaded, df_prep) ==
            IF df_prep.error # "" THEN failed(loaded, df_prep.error)
            ELSE traded(loaded, set_index(df_prep.table))
    IN cycle(_load_portfolio(file, backup, initial).portfolio, prepare_data(batch, ties))

\* the status update of every loop iteration: a new ledger instance is loaded
\* and saved again, unless the position is open and the latest CSV file
\* cannot be prepared (except Exception, line 569)
update_portfolio_status(file, backup, origin, initial, batch, outcome) ==
    LET skipped(loaded) == [portfolio |-> loaded, file |-> file, origin |-> origin]
        saved(loaded, save) ==
            [portfolio |-> loaded, file |-> save.file, origin |-> save.origin]
        status(loaded) ==
            IF /\ has_open_position(loaded)
               /\ batch.rows # <<>>
               /\ prepare_data(batch, "first_seen").error # ""
            THEN skipped(loaded)
            ELSE saved(loaded, _save_portfolio(loaded, file, origin, outcome))
    IN status(_load_portfolio(file, backup, initial).portfolio)

\* the markets of the cycles: two or three snapshots, the underlying rising or
\* falling, the first contract rising with its OI, collapsed, or falling to a
\* price of 0, with or without a row at the latest snapshot, the second
\* contract without a trend
PollTables ==
    {ScanTable(n, underlying, first,
               [side |-> "BUY_CALL", ltps |-> <<100, 105, 104, 108>>,
                ois |-> <<100, 100, 104, 110>>, gaps |-> {}]) :
        n \in 2..3,
        underlying \in {<<100, 101, 103, 104>>, <<104, 103, 101, 100>>},
        first \in [side : SignalTypes,
                   ltps : {<<100, 102, 104, 106>>, <<5, 6, 7, 8>>, <<100, 50, 0, 0>>},
                   ois : {<<100, 110, 120, 130>>},
                   gaps : {{}, {2}}]}

\* the CSV files: with all required columns, and with c_OI missing
PollBatches ==
    [columns : {required_cols, required_cols \ {"c_OI"}},
     rows : {csv_rows(table) : table \in PollTables}]

\* where the loop of run() stands: before the check for a new snapshot, before
\* the cycle on the CSV file just saved, or before the status update that ends
\* the iteration
AtPoll == Running("poll", "run", 0, [op |-> "none"])
AtCycle == Running("cycle", "run", 0, [op |-> "none"])
AtStatus == Running("status", "run", 0, [op |-> "none"])

MonitorInit ==
    /\ initial_balance = DEFAULT_INITIAL_BALANCE
    /\ portfolio = NewPortfolio(initial_balance)
    /\ portfolio_file \in {Absent, Stored(portfolio)}
    /\ origin_main \in {Untracked} \cup {Stored(portfolio) : tracked \in {portfolio_file} \ {Absent}}
    /\ ret = [op |-> "init"]
    /\ pc = AtPoll
    /\ temp_file = Absent
    /\ backup_file = Absent
    /\ df = [columns |-> required_cols, rows |-> <<>>]

\* a new snapshot was detected: process_snapshots saves the rows of the last
\* snapshots as the latest CSV file
SaveResults(batch) ==
    /\ pc = AtPoll
    /\ df' = batch
    /\ ret' = [op |-> "save_results"]
    /\ pc' = AtCycle
    /\ UNCHANGED <<portfolio, initial_balance, portfolio_file, origin_main,
                   temp_file, backup_file>>

\* the cycle on the latest CSV file, with the id of the most recent snapshot
ProcessSignalsAndTrades(ties, sell_attempts, buy_attempts) ==
    /\ pc = AtCycle
    /\ \E cycle \in {process_signals_and_trades(
                         portfolio_file, backup_file, origin_main, initial_balance, df,
                         df.rows[Len(df.rows)].SNAPSHOT_ID, ties,
                         sell_attempts, buy_attempts)} :
           /\ portfolio' = cycle.portfolio
           /\ portfolio_file' = cycle.file
           /\ origin_main' = cycle.origin
           /\ ret' = [op |-> "process_signals_and_trades", cycle |-> cycle]
    /\ pc' = AtStatus
    /\ UNCHANGED <<initial_balance, temp_file, backup_file, df>>

\* the end of an iteration, with or without a new snapshot, and the sleep
UpdatePortfolioStatus(outcome) ==
    /\ pc \in {AtPoll, AtStatus}
    /\ \E status \in {update_portfolio_status(portfolio_file, backup_file, origin_main,
                                              initial_balance, df, outcome)} :
           /\ portfolio' = status.portfolio
           /\ portfolio_file' = status.file
           /\ origin_main' = status.origin
    /\ ret' = [op |-> "update_portfolio_status"]
    /\ pc' = AtPoll
    /\ UNCHANGED <<initial_balance, temp_file, backup_file, df>>

\* the trading hours are over: the loop ends
StopTrading ==
    /\ pc = AtPoll
    /\ pc' = Down
    /\ UNCHANGED <<portfolio, initial_balance, portfolio_file, origin_main, ret,
                   temp_file, backup_file, df>>

MonitorNext ==
    \/ \E batch \in PollBatches : SaveResults(batch)
    \/ \E ties \in TieOrders, sell_attempts \in SaveAttempts, buy_attempts \in SaveAttempts :
           ProcessSignalsAndTrades(ties, sell_attempts, buy_attempts)
    \/ \E outcome \in SaveOutcomes : UpdatePortfolioStatus(outcome)
    \/ StopTrading

MonitorSpec == MonitorInit /\ [][MonitorNext]_vars

\* ------------------------------------------------------------ properties
OpenCount(positions) ==
    Cardinality({i \in 1..Len(positions) : positions[i].status = "open"})

ActionCount(trade_history, action) ==
    Cardinality({i \in 1..Len(trade_history) : trade_history[i].action = action})

IsAppendOf(longer, shorter) ==
    /\ Len(longer) = Len(shorter) + 1
    /\ SubSeq(longer, 1, Len(shorter)) = shorter

Last(seq) == seq[Len(seq)]

\* C1: after any sequence of Buy and Sell calls on a fresh ledger, at most one
\* position of the positions list has status open.
C1_AtMostOneOpen == OpenCount(portfolio.positions) <= 1

\* a second position is open after the first was closed, and a further Buy was
\* turned down because of it
C1_Witness ==
    /\ Len(portfolio.positions) = 2
    /\ OpenCount(portfolio.positions) = 1
    /\ ret.op = "buy" /\ ~ret.ok
    /\ ret.msg = <<"Cannot buy: Position already open">>

\* the step is the call buy(signal_type, ..., snapshot_seq) with its return value
IsBuy(signal_type, expiry, strike, ltp, snapshot_id, snapshot_seq) ==
    LET r == buy(portfolio, signal_type, expiry, strike, ltp, snapshot_id, snapshot_seq)
    IN /\ ret'.op = "buy"
       /\ ret'.ok = r.ok
       /\ ret'.msg = r.msg
       /\ portfolio' = r.portfolio

\* the step is the call sell(ltp, snapshot_id, snapshot_seq) with its return value
IsSell(ltp, snapshot_id, snapshot_seq) ==
    LET r == sell(portfolio, ltp, snapshot_id, snapshot_seq)
    IN /\ ret'.op = "sell"
       /\ ret'.ok = r.ok
       /\ ret'.msg = r.msg
       /\ portfolio' = r.portfolio

\* C2: a rejected Buy (position open, or cost above cash) or Sell (no position
\* open) returns False with a message and leaves cash, positions, trade_history,
\* last_buy_sequence and the persisted file as they were.
C2_RejectedLeavesLedger ==
    [][ret'.op \in {"buy", "sell"} =>
        /\ \A signal_type \in SignalTypes, expiry \in Expiries, strike \in Strikes,
              ltp \in Prices, snapshot_id \in SnapshotIds, snapshot_seq \in Seqs :
               ( /\ IsBuy(signal_type, expiry, strike, ltp, snapshot_id, snapshot_seq)
                 /\ \/ OpenCount(portfolio.positions) > 0
                    \/ ltp * LOT_SIZE > portfolio.balance )
               => ~ret'.ok
        /\ \A ltp \in Prices, snapshot_id \in SnapshotIds, snapshot_seq \in Seqs :
               ( /\ IsSell(ltp, snapshot_id, snapshot_seq)
                 /\ OpenCount(portfolio.positions) = 0 )
               => ~ret'.ok
        /\ ~ret'.ok =>
               /\ Len(ret'.msg) > 0
               /\ portfolio'.balance = portfolio.balance
               /\ portfolio'.positions = portfolio.positions
               /\ portfolio'.trade_history = portfolio.trade_history
               /\ portfolio'.last_buy_snapshot_seq = portfolio.last_buy_snapshot_seq
               /\ portfolio_file' = portfolio_file
    ]_vars

\* a Buy was turned down for its cost on a ledger that has traded
C2_Witness ==
    /\ ret.op = "buy" /\ ~ret.ok
    /\ ret.msg[1] = "Insufficient balance: Need, have"
    /\ Len(portfolio.trade_history) = 2

\* C3: with no position open, Buy(ltp) is rejected exactly when
\* ltp * lot_size > cash; the rejected call changes nothing, and a cost equal to
\* or below cash is accepted.
C3_RejectedIffCostAboveCash ==
    [][\A signal_type \in SignalTypes, expiry \in Expiries, strike \in Strikes,
          ltp \in Prices, snapshot_id \in SnapshotIds, snapshot_seq \in Seqs :
           ( /\ IsBuy(signal_type, expiry, strike, ltp, snapshot_id, snapshot_seq)
             /\ OpenCount(portfolio.positions) = 0 )
           => /\ ret'.ok <=> ~(ltp * LOT_SIZE > portfolio.balance)
              /\ ~ret'.ok => /\ portfolio' = portfolio
                             /\ portfolio_file' = portfolio_file
    ]_vars

\* a Buy whose cost was exactly the cash was accepted
C3_Witness ==
    /\ ret.op = "buy" /\ ret.ok
    /\ portfolio.balance = 0
    /\ Last(portfolio.positions).entry_cost = LOT_SIZE
    /\ Last(portfolio.trade_history).balance_before = LOT_SIZE

\* C4: from a non-negative initial balance and with non-negative prices, cash is
\* never negative.
C4_CashNeverNegative == portfolio.balance >= 0

\* the second Buy of a ledger spent all of its cash
C4_Witness ==
    /\ Len(portfolio.trade_history) = 3
    /\ OpenCount(portfolio.positions) = 1
    /\ Last(portfolio.positions).entry_cost > 0
    /\ portfolio.balance = 0

\* C5: a successful Buy(kind, expiry, strike, ltp, snapshot_id, sequence) takes
\* exactly ltp * lot_size from cash, appends exactly one open position
\* (entry_price ltp, entry_cost ltp * lot_size, quantity lot_size, entry sequence
\* sequence), appends exactly one BUY trade record with the cash before and after,
\* and sets last_buy_sequence to sequence.
C5_BuyEffect ==
    [][\A signal_type \in SignalTypes, expiry \in Expiries, strike \in Strikes,
          ltp \in Prices, snapshot_id \in SnapshotIds, snapshot_seq \in Seqs :
           ( /\ IsBuy(signal_type, expiry, strike, ltp, snapshot_id, snapshot_seq)
             /\ ret'.ok )
           => /\ portfolio'.balance = portfolio.balance - ltp * LOT_SIZE
              /\ IsAppendOf(portfolio'.positions, portfolio.positions)
              /\ LET position == Last(portfolio'.positions)
                 IN /\ position.status = "open"
                    /\ position.type = signal_type
                    /\ position.expiry = expiry
                    /\ position.strike = strike
                    /\ position.entry_price = ltp
                    /\ position.entry_cost = ltp * LOT_SIZE
                    /\ position.quantity = LOT_SIZE
                    /\ position.snapshot_seq = snapshot_seq
              /\ IsAppendOf(portfolio'.trade_history, portfolio.trade_history)
              /\ LET trade == Last(portfolio'.trade_history)
                 IN /\ trade.action = "BUY"
                    /\ trade.balance_before = portfolio.balance
                    /\ trade.balance_after = portfolio'.balance
              /\ portfolio'.last_buy_snapshot_seq = snapshot_seq
    ]_vars

\* a second Buy was accepted, at a price above 0 and at sequence 1
C5_Witness ==
    /\ ret.op = "buy" /\ ret.ok
    /\ Len(portfolio.positions) = 2
    /\ Last(portfolio.positions).entry_price = 1
    /\ portfolio.last_buy_snapshot_seq = 1

\* C6: a successful Buy(ltp1) on a ledger with cash0 and no open position,
\* followed by Sell(ltp2), leaves cash = cash0 - ltp1 * lot + ltp2 * lot; the
\* position of that Buy is closed with exit_price ltp2, exit_proceeds ltp2 * lot
\* and pnl (ltp2 - ltp1) * lot, and no other position is opened or closed. cash0
\* is the cash the Buy step started from, kept in the BUY record it appended.
C6_RoundTrip ==
    [][/\ \A signal_type \in SignalTypes, expiry \in Expiries, strike \in Strikes,
             ltp1 \in Prices, snapshot_id \in SnapshotIds, snapshot_seq \in Seqs :
              ( /\ IsBuy(signal_type, expiry, strike, ltp1, snapshot_id, snapshot_seq)
                /\ ret'.ok )
              => /\ Last(portfolio'.trade_history).balance_before = portfolio.balance
                 /\ Last(portfolio'.trade_history).ltp = ltp1
                 /\ Last(portfolio'.positions).entry_price = ltp1
                 /\ portfolio'.balance = portfolio.balance - ltp1 * LOT_SIZE
       /\ \A ltp2 \in Prices, snapshot_id \in SnapshotIds, snapshot_seq \in Seqs :
              ( /\ IsSell(ltp2, snapshot_id, snapshot_seq)
                /\ ret'.ok )
              => LET n == Len(portfolio.positions)
                     bought == Last(portfolio.trade_history)
                     cash0 == bought.balance_before
                     ltp1 == bought.ltp
                     closed == portfolio'.positions[n]
                 IN /\ bought.action = "BUY"
                    /\ portfolio.positions[n].status = "open"
                    /\ portfolio.positions[n].entry_price = ltp1
                    /\ portfolio'.balance = cash0 - ltp1 * LOT_SIZE + ltp2 * LOT_SIZE
                    /\ closed.status = "closed"
                    /\ closed.exit_price = ltp2
                    /\ closed.exit_proceeds = ltp2 * LOT_SIZE
                    /\ closed.pnl = (ltp2 - ltp1) * LOT_SIZE
                    /\ Len(portfolio'.positions) = n
                    /\ \A i \in 1..(n - 1) : portfolio'.positions[i] = portfolio.positions[i]
                    /\ OpenCount(portfolio'.positions) = 0
    ]_vars

\* a position bought at 1 was sold at 0, at a loss of one lot
C6_Witness ==
    /\ ret.op = "sell" /\ ret.ok
    /\ Last(portfolio.positions).status = "closed"
    /\ Last(portfolio.positions).entry_price = 1
    /\ Last(portfolio.positions).exit_price = 0
    /\ Last(portfolio.positions).pnl = 0 - LOT_SIZE

\* C7: trade_history is append-only and grows by exactly one record with each
\* successful Buy or Sell and with nothing else, so its length is the number of
\* successful Buy and Sell calls.
C7_HistoryCountsTrades ==
    /\ Len(portfolio.trade_history) = 0
    /\ [][IF ret'.op \in {"buy", "sell"} /\ ret'.ok
          THEN IsAppendOf(portfolio'.trade_history, portfolio.trade_history)
          ELSE portfolio'.trade_history = portfolio.trade_history
       ]_vars

\* three trades are on record and a Summary has been taken since
C7_Witness ==
    /\ Len(portfolio.trade_history) = 3
    /\ ret.op = "summary"
    /\ ret.summary.total_trades = 3

\* C8: the actions of trade_history alternate BUY, SELL, BUY, ... from BUY, and
\* the number of open positions is the number of BUY records minus the number of
\* SELL records.
C8_BuySellCycle ==
    /\ \A i \in 1..Len(portfolio.trade_history) :
          portfolio.trade_history[i].action = IF i % 2 = 1 THEN "BUY" ELSE "SELL"
    /\ OpenCount(portfolio.positions) =
          ActionCount(portfolio.trade_history, "BUY")
              - ActionCount(portfolio.trade_history, "SELL")

\* the cycle has come round: BUY, SELL, BUY on record, one position open
C8_Witness ==
    /\ Len(portfolio.trade_history) = 3
    /\ Last(portfolio.trade_history).action = "BUY"
    /\ portfolio.trade_history[2].action = "SELL"
    /\ OpenCount(portfolio.positions) = 1

\* C9: positions is append-only; a closed position never changes again, is never
\* removed and never reopens; an open position changes only in the successful
\* Sell that closes it.
C9_ClosedPositionsFrozen ==
    [][/\ Len(portfolio'.positions) >= Len(portfolio.positions)
       /\ \A i \in 1..Len(portfolio.positions) :
             /\ portfolio.positions[i].status = "closed"
                   => portfolio'.positions[i] = portfolio.positions[i]
             /\ portfolio'.positions[i] # portfolio.positions[i]
                   => /\ ret'.op = "sell" /\ ret'.ok
                      /\ portfolio.positions[i].status = "open"
                      /\ portfolio'.positions[i].status = "closed"
    ]_vars

\* a closed position has been through a later Buy and a Summary
C9_Witness ==
    /\ Len(portfolio.positions) = 2
    /\ portfolio.positions[1].status = "closed"
    /\ portfolio.positions[2].status = "open"
    /\ ret.op = "summary"

\* C10: last_buy_sequence is the sequence argument of the most recent successful
\* Buy, -9999 before the first; Sell, rejected calls and Summary leave it as it
\* is, so it outlives the position.
C10_LastBuySequence ==
    /\ portfolio.last_buy_snapshot_seq = NO_BUY_SEQ
    /\ [][/\ \A signal_type \in SignalTypes, expiry \in Expiries, strike \in Strikes,
                ltp \in Prices, snapshot_id \in SnapshotIds, snapshot_seq \in Seqs :
                 ( /\ IsBuy(signal_type, expiry, strike, ltp, snapshot_id, snapshot_seq)
                   /\ ret'.ok )
                 => portfolio'.last_buy_snapshot_seq = snapshot_seq
          /\ ~(ret'.op = "buy" /\ ret'.ok)
                 => portfolio'.last_buy_snapshot_seq = portfolio.last_buy_snapshot_seq
       ]_vars

\* the position bought at sequence 1 has been sold and the ledger still holds 1
C10_Witness ==
    /\ ret.op = "sell" /\ ret.ok
    /\ OpenCount(portfolio.positions) = 0
    /\ portfolio.last_buy_snapshot_seq = 1
    /\ get_last_buy_snapshot_seq(portfolio) = Last(portfolio.positions).snapshot_seq

\* the step is the call get_portfolio_summary(current_ltp) with its return value
IsSummary(current_ltp) ==
    /\ ret'.op = "summary"
    /\ ret'.summary = get_portfolio_summary(portfolio, initial_balance, current_ltp)

C16_SummaryValues ==
    [][\A current_ltp \in Prices \cup {None} :
         IsSummary(current_ltp) =>
             LET s == ret'.summary
                 i == get_open_position(portfolio)
                 closed == SelectSeq(portfolio.positions, LAMBDA q : q.status = "closed")
             IN /\ s.position_value =
                       IF i = 0 \/ current_ltp = None THEN 0
                       ELSE current_ltp * portfolio.positions[i].quantity
                /\ s.cash = portfolio.balance
                /\ s.total_value = s.cash + s.position_value
                /\ s.total_pnl = SumPnl(closed)
                /\ (i # 0 /\ current_ltp # None /\ current_ltp >= 0)
                       => s.unrealized_pnl =
                              (current_ltp - portfolio.positions[i].entry_price)
                                  * portfolio.positions[i].quantity
      ]_vars

\* a summary of the position bought at price 1 reports neither a position value
\* nor an unrealized loss: what a supplied price of 0 yields
C16_Witness ==
    /\ ret.op = "summary"
    /\ ret.summary.open_position # <<>>
    /\ ret.summary.open_position[1].entry_price = 1
    /\ ret.summary.position_value = 0
    /\ ret.summary.unrealized_pnl = 0

\* ------------------------------------------------------------ properties of SaveSpec
\* the cash the trade records account for: costs of the BUYs out, proceeds of
\* the SELLs in
RECURSIVE CashFlow(_)
CashFlow(trade_history) ==
    IF trade_history = <<>> THEN 0
    ELSE LET t == Head(trade_history)
         IN (IF t.action = "BUY" THEN 0 - t.cost ELSE t.proceeds)
                + CashFlow(Tail(trade_history))

ConsistentLedger(p) ==
    /\ p.balance = initial_balance + CashFlow(p.trade_history)
    /\ OpenCount(p.positions) =
           ActionCount(p.trade_history, "BUY") - ActionCount(p.trade_history, "SELL")

C13_ReplicationNeverFails ==
    [][/\ (pc.at = "sync" /\ pc'.at # "down")
          => /\ ret' = [op |-> "_save_portfolio", ok |-> TRUE]
             /\ portfolio' = portfolio
             /\ portfolio_file' \in {portfolio_file, origin_main}
             /\ pc' = Running("return", pc.op, pc.attempt, pc.result)
       /\ (pc.at = "return" /\ pc'.at # "down")
          => /\ ret' = pc.result
             /\ portfolio' = portfolio
      ]_vars

\* a Buy was saved and the sync gave up: origin/main is behind the canonical
\* file, save has returned True and the Buy is about to return success
C13_Witness ==
    /\ pc.at = "return" /\ pc.op = "buy" /\ pc.result.ok
    /\ ret = [op |-> "_save_portfolio", ok |-> TRUE]
    /\ portfolio_file = Stored(portfolio)
    /\ origin_main.kind = "ledger"
    /\ origin_main # portfolio_file

\* C14: when the canonical file exists but cannot be loaded as a valid ledger
\* record, the ledger is the one of the .bak copy if there is one, otherwise a
\* new ledger with the initial balance, no positions and no trades; a canonical
\* file that loads is used as it is.
C14_LoadFallback ==
    [][(pc.at = "down" /\ pc'.at # "down")
          => /\ portfolio_file.kind = "ledger" => portfolio' = portfolio_file.data
             /\ portfolio_file.kind \in {"truncated", "undecodable", "not_ledger"}
                    => portfolio' = IF backup_file.kind = "ledger"
                                    THEN backup_file.data
                                    ELSE NewPortfolio(initial_balance)
      ]_vars

\* the canonical file holds JSON that is no ledger, the .bak copy a ledger with
\* a trade, and the constructor is saving a new ledger over the canonical file
C14_Witness ==
    /\ pc.at = "write" /\ pc.op = "load"
    /\ portfolio_file = NotLedger
    /\ backup_file.kind = "ledger"
    /\ Len(backup_file.data.trade_history) = 1
    /\ portfolio = NewPortfolio(initial_balance)

\* ------------------------------------------------------------ properties of SignalSpec
\* the position of the call is quoted at the sequence the call evaluates
Quoted(a) ==
    /\ a.position_type \in {"BUY_CALL", "BUY_PUT"}
    /\ has_key(df, a.current_snapshot_seq, a.position_expiry, a.position_strike)

\* its LTP and OI at that sequence and at the one before
CurrentLtp(a) == ltp_of(a.position_type, loc(df, a.current_snapshot_seq, a.position_strike))
CurrentOi(a) == oi_of(a.position_type, loc(df, a.current_snapshot_seq, a.position_strike))
QuotedBefore(a) ==
    has_key(df, a.current_snapshot_seq - 1, a.position_expiry, a.position_strike)
PreviousLtp(a) ==
    ltp_of(a.position_type, loc(df, a.current_snapshot_seq - 1, a.position_strike))
PreviousOi(a) ==
    oi_of(a.position_type, loc(df, a.current_snapshot_seq - 1, a.position_strike))

\* C17: for every table, evaluate_signal with has_open_position true returns
\* SELL_CALL, SELL_PUT or NO_SIGNAL, SELL_CALL only for a BUY_CALL position and
\* SELL_PUT only for a BUY_PUT position; with has_open_position false it returns
\* BUY_CALL, BUY_PUT or NO_SIGNAL.
C17_SignalRespectsPosition ==
    ret.op = "evaluate_signal" =>
        LET a == ret.args
            signal == ret.result.signal
        IN /\ a.has_open_position =>
                  /\ signal \in {"SELL_CALL", "SELL_PUT", "NO_SIGNAL"}
                  /\ signal = "SELL_CALL" => a.position_type = "BUY_CALL"
                  /\ signal = "SELL_PUT" => a.position_type = "BUY_PUT"
           /\ ~a.has_open_position => signal \in {"BUY_CALL", "BUY_PUT", "NO_SIGNAL"}

\* a table whose last three snapshots make a CALL entry was evaluated for an
\* open BUY_PUT position: the answer is SELL_PUT
C17_Witness ==
    /\ ret.op = "evaluate_signal"
    /\ ret.args.has_open_position
    /\ ret.args.position_type = "BUY_PUT"
    /\ ret.result.signal = "SELL_PUT"
    /\ in_dict(generate_signals(df, DEFAULT_COOLDOWN).call, Len(df) - 1)

\* C18: for a table with fewer than 3 distinct sequences evaluate_signal returns
\* NO_SIGNAL with the reason "Less than 3 snapshot sequences", with or without
\* an open position: no entry, and no exit evaluation.
C18_TooFewSequences ==
    (ret.op = "evaluate_signal" /\ Len(df) < 3) =>
        /\ ret.result.signal = "NO_SIGNAL"
        /\ ret.result.reason = <<"Less than 3 snapshot sequences">>

\* a table of two snapshots in which an open BUY_CALL position has hit its stop
\* loss: evaluate_signal still answers NO_SIGNAL
C18_Witness ==
    /\ ret.op = "evaluate_signal"
    /\ Len(df) = 2
    /\ ret.args.has_open_position
    /\ ret.args.position_type = "BUY_CALL"
    /\ evaluate_exit_condition(df, "BUY_CALL", ret.args.position_expiry,
                               ret.args.position_strike, ret.args.entry_price,
                               ret.args.entry_snapshot_seq, 1,
                               DEFAULT_STOP_LOSS_PCT, DEFAULT_MIN_HOLD_SNAPS).should_exit
    /\ ret.result.signal = "NO_SIGNAL"

\* C19: when the position is quoted at the current sequence and its LTP is at
\* most half the entry price (stop_loss_pct 0.5), the exit evaluation says exit
\* with a stop-loss reason, however long the position was held; at entry price
\* 100 an LTP of 49 or 50 exits, and an exit above the stop loss (LTP 51) is one
\* of the trend-reversal rule.
C19_StopLoss ==
    (ret.op = "evaluate_exit_condition" /\ Quoted(ret.args)) =>
        LET a == ret.args
            r == ret.result
        IN /\ 2 * CurrentLtp(a) <= a.entry_price
                  => /\ r.should_exit
                     /\ r.reason[1] = "Stop loss"
                     /\ r.ltp = CurrentLtp(a)
           /\ (a.entry_price = 100 /\ CurrentLtp(a) \in {49, 50})
                  => r.should_exit /\ r.reason[1] = "Stop loss"
           /\ (2 * CurrentLtp(a) > a.entry_price /\ r.should_exit)
                  => r.reason[1] = "Sell signal: Price and OI falling"

\* a position entered at 100 one snapshot ago is quoted at exactly 50: exit
C19_Witness ==
    /\ ret.op = "evaluate_exit_condition"
    /\ ret.args.entry_price = 100
    /\ ret.args.current_snapshot_seq - ret.args.entry_snapshot_seq = 1
    /\ ret.result.ltp = 50
    /\ ret.result.should_exit
    /\ ret.result.reason[1] = "Stop loss"

\* C20: with min_hold 7 and the stop loss not hit, the exit evaluation says no
\* exit while current sequence - entry sequence < 7, even when LTP and OI both
\* fell; from 7 on, against the row of the previous sequence, it says exit with
\* the price-and-OI-falling reason when both fell and hold when either did not.
C20_MinimumHold ==
    (ret.op = "evaluate_exit_condition" /\ Quoted(ret.args)
         /\ 2 * CurrentLtp(ret.args) > ret.args.entry_price) =>
        LET a == ret.args
            r == ret.result
            held == a.current_snapshot_seq - a.entry_snapshot_seq
        IN /\ held < 7 => ~r.should_exit
           /\ (held >= 7 /\ QuotedBefore(a)) =>
                  IF CurrentLtp(a) < PreviousLtp(a) /\ CurrentOi(a) < PreviousOi(a)
                  THEN r.should_exit /\ r.reason[1] = "Sell signal: Price and OI falling"
                  ELSE ~r.should_exit /\ r.reason[1] = "Hold"

\* held for 6 snapshots, above the stop loss, LTP and OI both below the previous
\* snapshot: no exit, the minimum hold is not met
C20_Witness ==
    /\ ret.op = "evaluate_exit_condition"
    /\ Quoted(ret.args) /\ QuotedBefore(ret.args)
    /\ ret.args.current_snapshot_seq - ret.args.entry_snapshot_seq = 6
    /\ CurrentLtp(ret.args) < PreviousLtp(ret.args)
    /\ CurrentOi(ret.args) < PreviousOi(ret.args)
    /\ ~ret.result.should_exit
    /\ ret.result.reason = <<"Minimum hold not met", 6, 7>>

\* ------------------------------------------------------------ entry signals
\* the contract has a row at t2 - 2, t2 - 1 and t2
Present(strike, t2) ==
    \A t \in {t2 - 2, t2 - 1, t2} :
        /\ strike \in DOMAIN df[t + 1].rows
        /\ df[t + 1].rows[strike] # <<>>

\* the underlying rose (call) or fell (put) from t2 - 2 to t2
Direction(side, t2) ==
    IF side = "BUY_CALL"
    THEN df[t2 + 1].UNDERLYING_VALUE > df[t2 - 1].UNDERLYING_VALUE
    ELSE df[t2 + 1].UNDERLYING_VALUE < df[t2 - 1].UNDERLYING_VALUE

SideLtp(side, strike, t) ==
    IF side = "BUY_CALL" THEN df[t + 1].rows[strike][1].c_LTP
    ELSE df[t + 1].rows[strike][1].p_LTP

SideOi(side, strike, t) ==
    IF side = "BUY_CALL" THEN df[t + 1].rows[strike][1].c_OI
    ELSE df[t + 1].rows[strike][1].p_OI

\* r0 < r1 < r2, r2 >= 1.03 x r0, OI(t2) >= 1.05 x OI(t1), r0 > 5
Momentum(side, strike, t2) ==
    /\ SideLtp(side, strike, t2 - 2) < SideLtp(side, strike, t2 - 1)
    /\ SideLtp(side, strike, t2 - 1) < SideLtp(side, strike, t2)
    /\ 100 * SideLtp(side, strike, t2) >= 103 * SideLtp(side, strike, t2 - 2)
    /\ 100 * SideOi(side, strike, t2) >= 105 * SideOi(side, strike, t2 - 1)
    /\ SideLtp(side, strike, t2 - 2) > 5

Qualifies(side, strike, t2) ==
    /\ Present(strike, t2)
    /\ Direction(side, t2)
    /\ Momentum(side, strike, t2)

\* more than cooldown sequences lie between t2 and every earlier signal of the dict
CooldownAllows(dict, t2, cooldown) ==
    \A i \in 1..Len(dict) : dict[i].key < t2 => t2 - dict[i].key > cooldown

Recorded(side) == IF side = "BUY_CALL" THEN ret.result.call ELSE ret.result.put

AllStrikes == Strikes \cup QuietStrikes

\* C21: generate_signals records a call (put) signal at t2 exactly when the
\* underlying rose (fell) from t0 to t2, some contract with a row at t0, t1 and
\* t2 has LTP r0 < r1 < r2, r2 >= 1.03 x r0, OI(t2) >= 1.05 x OI(t1) and
\* r0 > 5 on the call (put) columns, and the cooldown since the earlier signals
\* of that side allows it; the contract recorded is such a contract, so one
\* without a row at t0, t1 or t2 is never recorded.
C21_EntryPredicate ==
    ret.op = "generate_signals" =>
        \A side \in SignalTypes, t2 \in 2..(Len(df) - 1) :
            /\ in_dict(Recorded(side), t2) <=>
                   /\ \E strike \in AllStrikes : Qualifies(side, strike, t2)
                   /\ CooldownAllows(Recorded(side), t2, ret.cooldown)
            /\ in_dict(Recorded(side), t2) =>
                   /\ get_item(Recorded(side), t2).expiry = df[t2 + 1].EXPIRY
                   /\ Qualifies(side, get_item(Recorded(side), t2).strike, t2)

\* a call signal at the third snapshot and a put signal at the fourth, in a
\* table where a contract misses a row of the first window
C21_Witness ==
    /\ ret.op = "generate_signals"
    /\ Len(df) = 4
    /\ in_dict(ret.result.call, 2)
    /\ in_dict(ret.result.put, 3)
    /\ \E strike \in AllStrikes : ~Present(strike, 2)

\* the table of the entry scenario: three sequences with underlying 100, 101,
\* 103, the contract of strike 24000 with call OI 100, 110, 120 and the call
\* LTPs given. The LTPs are written ten times as large (10 is 100, 10.5 is 105,
\* 10.4 is 104): every entry condition compares ratios but r0 > 5, which holds
\* for 10 as for 100.
ScenarioTable(ltps) ==
    /\ Len(df) = 3
    /\ \A i \in 1..3 :
        /\ df[i].UNDERLYING_VALUE = <<100, 101, 103>>[i]
        /\ df[i].rows[24000] # <<>>
        /\ df[i].rows[24000][1].c_LTP = ltps[i]
        /\ df[i].rows[24000][1].c_OI = <<100, 110, 120>>[i]

\* evaluate_signal was called with no open position and no cooldown in force
CalledFlat ==
    /\ ret.op = "evaluate_signal"
    /\ ~ret.args.has_open_position
    /\ \/ ret.args.last_buy_snapshot_seq = None
       \/ (Len(df) - 1) - ret.args.last_buy_snapshot_seq > ret.args.cooldown

\* C22 as stated: with underlying [100, 101, 103], no open position and no
\* cooldown in force, the contract with call LTP [10, 10.5, 10.4] and call OI
\* [100, 110, 120] yields BUY_CALL at t2 for its strike.
C22_EntryScenarioStated ==
    (ScenarioTable(<<100, 105, 104>>) /\ CalledFlat) =>
        /\ ret.result.signal = "BUY_CALL"
        /\ ret.result.strike = 24000
        /\ ret.result.snapshot_seq = 2

\* C22 amended: in that scenario the contract with call LTP [10, 10.5, 10.4]
\* yields no BUY for its strike, its LTP falls from t1 to t2; with call LTP
\* [10, 10.2, 10.4], the same OI and underlying, and no qualifying strike before
\* it in iteration order, the result is BUY_CALL at t2 for its strike at 10.4.
C22_EntryScenario ==
    /\ (ScenarioTable(<<100, 105, 104>>) /\ CalledFlat) =>
           ~(/\ ret.result.signal \in {"BUY_CALL", "BUY_PUT"}
             /\ ret.result.strike = 24000)
    /\ (ScenarioTable(<<100, 102, 104>>) /\ CalledFlat) =>
           /\ ret.result.signal = "BUY_CALL"
           /\ ret.result.strike = 24000
           /\ ret.result.snapshot_seq = 2
           /\ ret.result.ltp = 104

\* the scenario as stated, answered with NO_SIGNAL
C22_Witness ==
    /\ ScenarioTable(<<100, 105, 104>>)
    /\ CalledFlat
    /\ ret.result.signal = "NO_SIGNAL"

\* every entry condition but the cooldown holds for the side at the latest
\* sequence, and no window before the latest one qualified for that side
EntryDue(side) ==
    /\ \E strike \in AllStrikes : Qualifies(side, strike, Len(df) - 1)
    /\ \A t2 \in 2..(Len(df) - 2) : \A strike \in AllStrikes : ~Qualifies(side, strike, t2)

\* latest sequence minus last_buy_snapshot_seq of a call of evaluate_signal
SinceLastBuy == (Len(df) - 1) - ret.args.last_buy_snapshot_seq

\* C23 as stated: an entry is allowed once at least cooldown sequences have
\* elapsed. When the latest sequence minus last_buy_sequence equals cooldown,
\* or t2 minus the last signal of the side in the scan equals cooldown, and the
\* other entry conditions hold, a BUY signal is produced; when fewer than
\* cooldown sequences have elapsed since the last buy, no BUY is produced.
C23_CooldownThreshold ==
    /\ (/\ ret.op = "evaluate_signal"
        /\ ~ret.args.has_open_position
        /\ ret.args.last_buy_snapshot_seq # None) =>
           /\ (SinceLastBuy = ret.args.cooldown /\ \E side \in SignalTypes : EntryDue(side)) =>
                  ret.result.signal \in SignalTypes
           /\ SinceLastBuy < ret.args.cooldown => ret.result.signal \notin SignalTypes
    /\ ret.op = "generate_signals" =>
           \A side \in SignalTypes, t2 \in 2..(Len(df) - 1) :
               (/\ \E strike \in AllStrikes : Qualifies(side, strike, t2)
                /\ \A i \in 1..Len(Recorded(side)) :
                       Recorded(side)[i].key < t2 => t2 - Recorded(side)[i].key >= ret.cooldown)
                   => in_dict(Recorded(side), t2)

\* exactly cooldown sequences after the last buy an entry is due and refused
C23_Witness ==
    /\ ret.op = "evaluate_signal"
    /\ ~ret.args.has_open_position
    /\ ret.args.last_buy_snapshot_seq # None
    /\ SinceLastBuy = ret.args.cooldown
    /\ \E side \in SignalTypes : EntryDue(side)
    /\ ret.result = no_signal(<<"Cooldown active", SinceLastBuy, ret.args.cooldown>>)

\* C24: evaluate_signal returns BUY_CALL or BUY_PUT only for the latest
\* sequence of the table, for an (expiry, strike) whose triple ending at the
\* latest sequence satisfies every entry condition of the side, the cooldowns
\* included, and with that contract's LTP at the latest sequence; a signal
\* recorded for an earlier t2 is never the BUY returned.
C24_EntryOnlyAtLatest ==
    (ret.op = "evaluate_signal" /\ ret.result.signal \in SignalTypes) =>
        /\ ~ret.args.has_open_position
        /\ ret.result.snapshot_seq = Len(df) - 1
        /\ ret.result.expiry = df[Len(df)].EXPIRY
        /\ ret.result.strike \in AllStrikes
        /\ Qualifies(ret.result.signal, ret.result.strike, Len(df) - 1)
        /\ EntryDue(ret.result.signal)
        /\ ret.result.ltp = SideLtp(ret.result.signal, ret.result.strike, Len(df) - 1)
        /\ ret.result.snapshot_id = df[Len(df)].SNAPSHOT_ID
        /\ \/ ret.args.last_buy_snapshot_seq = None
           \/ SinceLastBuy > ret.args.cooldown

\* a put entry at the fourth sequence is returned, the call signal recorded at
\* the third is not
C24_Witness ==
    /\ ret.op = "evaluate_signal"
    /\ Len(df) = 4
    /\ ret.result.signal = "BUY_PUT"
    /\ ret.result.snapshot_seq = 3
    /\ \E strike \in AllStrikes : Qualifies("BUY_CALL", strike, 2)

\* the strikes that qualify for the side on the triple ending at t2
Candidates(side, t2) == {strike \in AllStrikes : Qualifies(side, strike, t2)}

Prepared == ret.op = "prepare_data" /\ ret.result.error = ""

SeqsOf(table) == {r.SNAPSHOT_SEQ : r \in table}

\* the sequence numbers are exactly 0..K-1
Dense(table) == SeqsOf(table) = 0..(Cardinality(SeqsOf(table)) - 1)

\* a row with a later timestamp never has a smaller sequence number
TimeOrdered(table) ==
    \A r1, r2 \in table : r1.TIMESTAMP < r2.TIMESTAMP => r1.SNAPSHOT_SEQ <= r2.SNAPSHOT_SEQ

\* the batch df with its rows in another file order
Reordered(p) == [df EXCEPT !.rows = [i \in 1..Len(df.rows) |-> df.rows[p[i]]]]

\* each (date, snapshot id, expiry, strike) occurs at most once in the batch
OncePerSnapshot(rows) ==
    \A i, j \in 1..Len(rows) :
        (/\ rows[i].DOWNLOAD_DATE = rows[j].DOWNLOAD_DATE
         /\ rows[i].SNAPSHOT_ID = rows[j].SNAPSHOT_ID
         /\ rows[i].EXPIRY = rows[j].EXPIRY
         /\ rows[i].STRIKE = rows[j].STRIKE) => i = j

\* a valid batch: each row of a snapshot once, and one timestamp for the rows
\* of one (date, snapshot id)
ValidBatch(rows) ==
    /\ OncePerSnapshot(rows)
    /\ \A i, j \in 1..Len(rows) :
           (/\ rows[i].DOWNLOAD_DATE = rows[j].DOWNLOAD_DATE
            /\ rows[i].SNAPSHOT_ID = rows[j].SNAPSHOT_ID)
               => rows[i].DOWNLOAD_TIME = rows[j].DOWNLOAD_TIME

\* C26 as stated: for every valid batch the sequence numbers are exactly the
\* dense range 0..K-1, a row with a later timestamp never gets a smaller
\* sequence number, and the table is the same for every permutation of the
\* input rows.
C26_DenseOrderedStable ==
    (Prepared /\ ValidBatch(df.rows)) =>
        /\ Dense(ret.result.table)
        /\ TimeOrdered(ret.result.table)
        /\ \A p \in Permutations(1..Len(df.rows)) :
               prepare_data(Reordered(p), ret.ties).table = ret.result.table

\* two snapshot ids of one day share a timestamp and a strike, each in one row
C26_Witness ==
    /\ Prepared
    /\ ValidBatch(df.rows)
    /\ Len(df.rows) = 2
    /\ TIMESTAMP(df.rows[1]) = TIMESTAMP(df.rows[2])
    /\ df.rows[1].STRIKE = df.rows[2].STRIKE
    /\ df.rows[1].SNAPSHOT_ID # df.rows[2].SNAPSHOT_ID
    /\ prepare_data([df EXCEPT !.rows = <<df.rows[2], df.rows[1]>>], ret.ties).table
           # ret.result.table

\* C27 as stated: rows are sequenced by timestamp, not by snapshot id: rows
\* with the same timestamp have the same sequence number, K is the number of
\* distinct timestamps, and a snapshot with a larger id and an earlier
\* timestamp has the smaller sequence number.
C27_SequencedByTimestamp ==
    (Prepared /\ ValidBatch(df.rows)) =>
        /\ \A r1, r2 \in ret.result.table :
               r1.TIMESTAMP = r2.TIMESTAMP => r1.SNAPSHOT_SEQ = r2.SNAPSHOT_SEQ
        /\ Cardinality(SeqsOf(ret.result.table))
               = Cardinality({r.TIMESTAMP : r \in ret.result.table})
        /\ \A r1, r2 \in ret.result.table :
               (r1.SNAPSHOT_ID > r2.SNAPSHOT_ID /\ r1.TIMESTAMP < r2.TIMESTAMP)
                   => r1.SNAPSHOT_SEQ < r2.SNAPSHOT_SEQ

\* two snapshot ids with one timestamp were given two sequence numbers
C27_Witness ==
    /\ Prepared
    /\ ValidBatch(df.rows)
    /\ \E r1, r2 \in ret.result.table :
           /\ r1.SNAPSHOT_ID # r2.SNAPSHOT_ID
           /\ r1.TIMESTAMP = r2.TIMESTAMP
           /\ r1.SNAPSHOT_SEQ # r2.SNAPSHOT_SEQ

\* C28: in the prepared table each key (sequence, expiry, strike) belongs to
\* at most one row, for every batch in which each (date, snapshot id, expiry,
\* strike) occurs at most once, also when the rows of one snapshot id carry
\* different timestamps.
C28_KeyUnique ==
    (Prepared /\ OncePerSnapshot(df.rows)) =>
        \A r1, r2 \in ret.result.table :
            (/\ r1.SNAPSHOT_SEQ = r2.SNAPSHOT_SEQ
             /\ r1.EXPIRY = r2.EXPIRY
             /\ r1.STRIKE = r2.STRIKE) => r1 = r2

\* the rows of one snapshot id carry two timestamps
C28_Witness ==
    /\ Prepared
    /\ OncePerSnapshot(df.rows)
    /\ \E i, j \in 1..Len(df.rows) :
           /\ df.rows[i].DOWNLOAD_DATE = df.rows[j].DOWNLOAD_DATE
           /\ df.rows[i].SNAPSHOT_ID = df.rows[j].SNAPSHOT_ID
           /\ df.rows[i].DOWNLOAD_TIME # df.rows[j].DOWNLOAD_TIME
    /\ Cardinality(ret.result.table) > Len(df.rows)

\* ------------------------------------------------------------ aggregation
\* aggregate_to_3min_snapshots returned a table for the batch df
Aggregated == ret.op = "aggregate_to_3min_snapshots" /\ ret.result.error = ""

\* the window of 180 seconds, counted from the first timestamp of the batch,
\* a row falls into
FirstTimestamp == CHOOSE t \in {TIMESTAMP(df.rows[i]) : i \in 1..Len(df.rows)} : \A i \in 1..Len(df.rows) : t <= TIMESTAMP(df.rows[i])

WindowOf(r) == (TIMESTAMP(r) - FirstTimestamp) \div 180

WindowsOf(rows) == {WindowOf(rows[i]) : i \in 1..Len(rows)}

\* the rows of the batch observed last for their (expiry, strike) in their window
LastObserved ==
    {df.rows[i] : i \in {i \in 1..Len(df.rows) :
        \A j \in 1..Len(df.rows) :
            (/\ WindowOf(df.rows[j]) = WindowOf(df.rows[i])
             /\ df.rows[j].EXPIRY = df.rows[i].EXPIRY
             /\ df.rows[j].STRIKE = df.rows[i].STRIKE)
                => TIMESTAMP(df.rows[j]) <= TIMESTAMP(df.rows[i])}}

\* the number of windows before the window of r
WindowRank(r) == Cardinality({w \in WindowsOf(df.rows) : w < WindowOf(r)})

\* C30 as stated: aggregation puts the rows into windows of 180 seconds
\* counted from the first timestamp; for each window the output holds, for
\* every (expiry, strike) observed in the window, its last-observed row, under
\* the rank of the window; the sequence numbers are the dense range 0..W-1.
C30_AggregationPerContract ==
    (Aggregated /\ ValidBatch(df.rows)) =>
        /\ \A r \in LastObserved :
               \E t \in ret.result.table :
                   /\ [f \in DOMAIN r |-> t[f]] = r
                   /\ t.SNAPSHOT_SEQ = WindowRank(r)
        /\ SeqsOf(ret.result.table) = 0..(Cardinality(WindowsOf(df.rows)) - 1)

\* one snapshot with two strikes in one window was aggregated
C30_Witness ==
    /\ Aggregated
    /\ ValidBatch(df.rows)
    /\ \E i, j \in 1..Len(df.rows) :
           /\ WindowOf(df.rows[i]) = WindowOf(df.rows[j])
           /\ df.rows[i].SNAPSHOT_ID = df.rows[j].SNAPSHOT_ID
           /\ df.rows[i].STRIKE # df.rows[j].STRIKE
    /\ Cardinality(ret.result.table) < Cardinality(LastObserved)

\* the sequence numbers of an aggregated table are the dense range 0..W-1
AggregatedDense ==
    (Aggregated /\ ValidBatch(df.rows)) =>
        SeqsOf(ret.result.table) = 0..(Cardinality(WindowsOf(df.rows)) - 1)

\* ------------------------------------------------------------ poll cycles
\* the last step was a cycle of the poll loop
Cycled == ret.op = "process_signals_and_trades"

\* the latest CSV file lacks a required column
LacksField == ~(required_cols \subseteq df.columns)

\* the cycle on the latest CSV file if it had all its columns
WithAllFields(sell_attempts, buy_attempts) ==
    process_signals_and_trades(portfolio_file, backup_file, origin_main, initial_balance,
                               [df EXCEPT !.columns = required_cols],
                               df.rows[Len(df.rows)].SNAPSHOT_ID, "first_seen",
                               sell_attempts, buy_attempts)

\* C29: a batch that lacks a required field is rejected as a whole by the
\* preparation (an error and no table); the cycle on it catches the error and
\* the loop goes on to its status update; the cycle calls neither Buy nor Sell
\* and leaves the cash, the positions and the trade history of the ledger it
\* loaded, and the ledger file, as they were.
C29_MissingFieldRejected ==
    [][(pc = AtCycle /\ LacksField) =>
          /\ \A ties \in TieOrders :
                 prepare_data(df, ties) = [error |-> "ValueError", table |-> {}]
          /\ ret'.op = "process_signals_and_trades"
          /\ ret'.cycle.error = "ValueError"
          /\ pc' = AtStatus
          /\ ~ret'.cycle.sell_called
          /\ ~ret'.cycle.buy_called
          /\ ret'.cycle.loaded =
                 _load_portfolio(portfolio_file, backup_file, initial_balance).portfolio
          /\ portfolio'.balance = ret'.cycle.loaded.balance
          /\ portfolio'.positions = ret'.cycle.loaded.positions
          /\ portfolio'.trade_history = ret'.cycle.loaded.trade_history
          /\ portfolio_file' = portfolio_file
          /\ origin_main' = origin_main]_vars

\* a cycle rejected a batch on which, with all its fields, it would have sold
\* the open position
C29_Witness ==
    /\ Cycled
    /\ LacksField
    /\ ret.cycle.error = "ValueError"
    /\ pc = AtStatus
    /\ has_open_position(portfolio)
    /\ WithAllFields(<<"skip", "skip">>, <<"skip", "skip">>).sell_ok

\* cycles on complete batches do trade
CycleBought == Cycled /\ ret.cycle.buy_ok
CycleSold == Cycled /\ ret.cycle.sell_ok
CycleSoldAndBought == Cycled /\ ret.cycle.sell_called /\ ret.cycle.buy_called

\* ------------------------------------------------------------ zero denominators
\* a ledger whose open position was bought at the price 0
FreePosition == buy(NewPortfolio(DEFAULT_INITIAL_BALANCE), "BUY_CALL", "2025-01-30", 24000, 0, 101, 0).portfolio

\* the contract recorded for side at t2 has no open interest at t2 - 1, or
\* the price 0 at t2 - 2
ZeroDenominator(side, t2) ==
    \/ SideOi(side, get_item(Recorded(side), t2).strike, t2 - 1) = 0
    \/ SideLtp(side, get_item(Recorded(side), t2).strike, t2 - 2) = 0

\* C31 as stated: no division by zero is reachable: Sell of a position whose
\* entry cost is 0 succeeds with pnl_pct 0; the exit evaluation of a position
\* whose entry price is 0 returns a decision; and a candidate whose OI at t1
\* is 0, or whose LTP at t0 is 0, is evaluated and gives no entry signal.
C31_NoDivisionByZero ==
    /\ \A ltp \in Prices :
           /\ sell(FreePosition, ltp, 101, 1).ok
           /\ Last(sell(FreePosition, ltp, 101, 1).portfolio.positions).pnl_pct = 0
    /\ (ret.op = "evaluate_exit_condition" /\ ret.args.entry_price = 0)
           => ret.result.should_exit \in BOOLEAN
    /\ ret.op = "generate_signals" =>
           \A side \in SignalTypes, t2 \in 2..(Len(df) - 1) :
               in_dict(Recorded(side), t2) => ~ZeroDenominator(side, t2)

\* a signal was recorded for a contract with no open interest at t1
C31_Witness ==
    /\ ret.op = "generate_signals"
    /\ \E side \in SignalTypes, t2 \in 2..(Len(df) - 1) :
           /\ in_dict(Recorded(side), t2)
           /\ SideOi(side, get_item(Recorded(side), t2).strike, t2 - 1) = 0

\* the parts of C31 that hold: the exit evaluation with entry price 0 decides,
\* with a stop loss exactly at the price 0, and no signal is recorded for a
\* contract whose price at t0 is 0
ZeroEntryPriceDecides ==
    (ret.op = "evaluate_exit_condition" /\ ret.args.entry_price = 0
        /\ has_key(df, ret.args.current_snapshot_seq, ret.args.position_expiry,
                   ret.args.position_strike)) =>
        /\ ret.result.should_exit \in BOOLEAN
        /\ ret.result.reason[1] = "Stop loss" <=> ret.result.ltp = 0

ZeroPriceNeverRecorded ==
    ret.op = "generate_signals" =>
        \A side \in SignalTypes, t2 \in 2..(Len(df) - 1) :
            in_dict(Recorded(side), t2) =>
                SideLtp(side, get_item(Recorded(side), t2).strike, t2 - 2) # 0

\* ------------------------------------------------------------ exits on sparse tables
\* the exit evaluation was called
ExitEvaluated == ret.op = "evaluate_exit_condition"

\* the sequences present in the table, and the one before seq among them
PresentSeqs ==
    {seq \in 0..(Len(df) - 1) : \E k \in DOMAIN df[seq + 1].rows : df[seq + 1].rows[k] # <<>>}

Preceding(seq) == {s \in PresentSeqs : s < seq}

Before(seq) == CHOOSE s \in Preceding(seq) : \A t \in Preceding(seq) : t <= s

\* the row of the position at seq
QuotedAt(seq) ==
    /\ seq \in 0..(Len(df) - 1)
    /\ df[seq + 1].rows[ret.args.position_strike] # <<>>

LtpAt(seq) == ltp_of(ret.args.position_type, df[seq + 1].rows[ret.args.position_strike][1])

OiAt(seq) == oi_of(ret.args.position_type, df[seq + 1].rows[ret.args.position_strike][1])

\* the position is quoted at the current sequence above its stop loss
AboveStopLoss ==
    /\ QuotedAt(ret.args.current_snapshot_seq)
    /\ LtpAt(ret.args.current_snapshot_seq) * 100
           > ret.args.entry_price * (100 - DEFAULT_STOP_LOSS_PCT)

HeldLongEnough ==
    ret.args.current_snapshot_seq - ret.args.entry_snapshot_seq >= DEFAULT_MIN_HOLD_SNAPS

\* C32: the trend-reversal comparison uses the sequence that precedes the
\* current one among the sequences present in the table, not current - 1: above
\* the stop loss and after the minimum hold, the decision is an exit exactly
\* when the position has a row at that sequence and its current LTP and OI are
\* both below the LTP and OI of that row.
C32_PreviousPresentSequence ==
    (ExitEvaluated /\ AboveStopLoss /\ HeldLongEnough
        /\ Preceding(ret.args.current_snapshot_seq) # {}) =>
        (ret.result.should_exit <=>
            /\ QuotedAt(Before(ret.args.current_snapshot_seq))
            /\ LtpAt(ret.args.current_snapshot_seq)
                   < LtpAt(Before(ret.args.current_snapshot_seq))
            /\ OiAt(ret.args.current_snapshot_seq)
                   < OiAt(Before(ret.args.current_snapshot_seq)))

\* the table has the sequences 0, 3 and 9; at 9 the position is sold against
\* its row at 3, while its row at 0 is not above the current one
C32_Witness ==
    /\ ExitEvaluated
    /\ PresentSeqs = {0, 3, 9}
    /\ ret.args.current_snapshot_seq = 9
    /\ AboveStopLoss
    /\ ret.result.should_exit
    /\ ret.result.reason[1] = "Sell signal: Price and OI falling"
    /\ QuotedAt(0)
    /\ LtpAt(9) >= LtpAt(0)

\* ------------------------------------------------------------ exits and missing rows
\* the open position of the call: evaluate_signal is given the position of the
\* ledger and evaluates it at the latest sequence of the table
OpenEvaluated == ret.op = "evaluate_signal" /\ ret.args.has_open_position

\* C33: missing data never causes an exit. If the position has no row at the
\* latest sequence, the exit evaluation reports no exit, "Position not found in
\* current snapshot" and no LTP, and evaluate_signal returns NO_SIGNAL; if it has
\* a row at the latest sequence above the stop loss, and no row at the previous
\* sequence or no previous sequence at all, the decision is to hold.
C33_MissingDataNeverExits ==
    /\ (ExitEvaluated /\ ~QuotedAt(ret.args.current_snapshot_seq)) =>
           /\ ~ret.result.should_exit
           /\ ret.result.reason = <<"Position not found in current snapshot">>
           /\ ret.result.ltp = None
    /\ (OpenEvaluated /\ ~QuotedAt(Len(df) - 1)) => ret.result.signal = "NO_SIGNAL"
    /\ (/\ ExitEvaluated
        /\ AboveStopLoss
        /\ \/ Preceding(ret.args.current_snapshot_seq) = {}
           \/ ~QuotedAt(Before(ret.args.current_snapshot_seq))) =>
           ~ret.result.should_exit

\* the position is quoted at 0 and at 2 and not at 1, held long enough, and at
\* 2 its LTP and OI are below those at 0: the decision is to hold
C33_Witness ==
    /\ ExitEvaluated
    /\ ret.args.current_snapshot_seq = 2
    /\ AboveStopLoss
    /\ HeldLongEnough
    /\ ~QuotedAt(1)
    /\ QuotedAt(0)
    /\ LtpAt(2) < LtpAt(0)
    /\ OiAt(2) < OiAt(0)
    /\ ~ret.result.should_exit
    /\ ret.result.reason[1] = "Hold"

\* the position has no row at the latest of three sequences: NO_SIGNAL
OpenPositionNotQuoted ==
    /\ OpenEvaluated
    /\ Len(df) = 3
    /\ ret.args.position_type = "BUY_CALL"
    /\ ~QuotedAt(2)
    /\ ret.result = no_signal(<<"Position not found in current snapshot">>)

\* ------------------------------------------------------------ the file after the sync
\* _save_portfolio has returned True and its caller has not returned yet
SaveReturnedTrue == pc.at = "return" /\ ret = [op |-> "_save_portfolio", ok |-> TRUE]

\* C38: the git sync that follows the rename never changes the canonical file:
\* when _save_portfolio has returned True the canonical file holds the ledger
\* that was just written, whatever became of the commit, the pull, the push and
\* the conflict resolution.
C38_ReplicationKeepsFile == SaveReturnedTrue => portfolio_file = Stored(portfolio)

\* a Buy was written and renamed, the push was rejected and the working tree
\* reset to origin/main: the canonical file is the ledger without the position
C38_Witness ==
    /\ SaveReturnedTrue
    /\ pc.op = "buy"
    /\ has_open_position(portfolio)
    /\ portfolio_file = origin_main
    /\ portfolio_file.kind = "ledger"
    /\ ~has_open_position(portfolio_file.data)

\* ------------------------------------------------------------ accounting
\* the entry costs of the positions, and the proceeds of those that are closed
RECURSIVE EntryCosts(_)
EntryCosts(positions) ==
    IF positions = <<>> THEN 0
    ELSE Head(positions).entry_cost + EntryCosts(Tail(positions))

RECURSIVE ExitProceeds(_)
ExitProceeds(positions) ==
    IF positions = <<>> THEN 0
    ELSE (IF Head(positions).status = "closed" THEN Head(positions).exit_proceeds ELSE 0)
             + ExitProceeds(Tail(positions))

\* C39: in every ledger reached from a new one by Buy and Sell calls, cash =
\* initial balance - the entry costs of all positions + the exit proceeds of the
\* closed ones; with no position open, the total_pnl that Summary reports is
\* cash - initial balance; and every trade record starts from the balance the
\* record before it ended with, the first one from the initial balance.
C39_AccountingIdentity ==
    /\ portfolio.balance = initial_balance - EntryCosts(portfolio.positions)
                               + ExitProceeds(portfolio.positions)
    /\ (ret.op = "summary" /\ ~has_open_position(portfolio)) =>
           ret.summary.total_pnl = portfolio.balance - initial_balance
    /\ \A i \in 1..Len(portfolio.trade_history) :
           portfolio.trade_history[i].balance_before =
               IF i = 1 THEN initial_balance
               ELSE portfolio.trade_history[i - 1].balance_after

\* a position was bought at 1 and sold at 0: Summary of the flat ledger reports
\* the loss of 150, which is what the cash lost
C39_Witness ==
    /\ ret.op = "summary"
    /\ ~has_open_position(portfolio)
    /\ Len(portfolio.trade_history) = 2
    /\ portfolio.positions[1].pnl = 0 - LOT_SIZE
    /\ ret.summary.total_pnl = 0 - LOT_SIZE
    /\ portfolio.balance = initial_balance - LOT_SIZE

\* ------------------------------------------------------------ trades across cycles
\* the ledger a new PortfolioManager() would load from the files as they are
Reloaded == _load_portfolio(portfolio_file, backup_file, initial_balance).portfolio

\* the records of a are the first records of b
StartsWith(b, a) == Len(a) <= Len(b) /\ SubSeq(b, 1, Len(a)) = a

\* C34: every trade for which Buy or Sell returned success in a cycle is in the
\* ledger the next cycle works with, whatever the save and its retry met: the
\* files left by the cycle load as the ledger that holds the trade, and no
\* later step of the loop takes a trade record out of the ledger the files
\* load as, from which the next cycle constructs its ledger.
C34_DurableAcrossCycles ==
    [][/\ (pc = AtCycle /\ (ret'.cycle.buy_ok \/ ret'.cycle.sell_ok)) =>
              Reloaded' = ret'.cycle.portfolio
       /\ StartsWith(Reloaded'.trade_history, Reloaded.trade_history)]_vars

\* a cycle bought, both saves of the Buy failed: the Buy returned success and
\* the files load as a ledger without the position
C34_Witness ==
    /\ Cycled
    /\ ret.cycle.buy_ok
    /\ has_open_position(ret.cycle.portfolio)
    /\ portfolio_file = Stored(ret.cycle.loaded)
    /\ ~has_open_position(Reloaded)
    /\ Reloaded.trade_history = <<>>

\* when a save of the trade succeeded and the push was not rejected, the files
\* load as the ledger with the trade
SavedTradeIsReloaded ==
    [][(/\ pc = AtCycle
        /\ ret'.cycle.buy_ok \/ ret'.cycle.sell_ok
        /\ portfolio_file' # portfolio_file
        /\ portfolio_file' # origin_main) =>
           Reloaded' = ret'.cycle.portfolio]_vars

\* ------------------------------------------------------------ exits in the loop
\* the position that was open in the ledger the cycle loaded
LoadedOpen == ret.cycle.loaded.positions[get_open_position(ret.cycle.loaded)]

\* its row in the latest snapshot of the CSV file and the LTP of its side there
LatestRow ==
    CHOOSE r \in {df.rows[k] : k \in 1..Len(df.rows)} :
        /\ r.STRIKE = LoadedOpen.strike
        /\ r.SNAPSHOT_ID = df.rows[Len(df.rows)].SNAPSHOT_ID

LatestLtp == ltp_of(LoadedOpen.type, LatestRow)

\* evaluate_signal answered the open position with a SELL signal
SellSignalled == Cycled /\ ret.cycle.exit_signal \in {"SELL_CALL", "SELL_PUT"}

\* Sell was called and closed the position at price ltp
SoldAt(ltp) ==
    /\ ret.cycle.sell_called
    /\ ret.cycle.sell_ok
    /\ LET closed == ret.cycle.portfolio.positions[get_open_position(ret.cycle.loaded)]
       IN closed.status = "closed" /\ closed.exit_price = ltp

\* C35: whenever evaluate_signal returns SELL_CALL or SELL_PUT for the open
\* position, the same cycle calls Sell with the LTP of the signal and the
\* position is closed, for every LTP >= 0, a stop loss at LTP 0 included.
C35_SellSignalExecuted == SellSignalled => SoldAt(LatestLtp)

\* the LTP of an open BUY_CALL position fell to 0: the stop loss gave SELL_CALL
\* with LTP 0, Sell was not called and the position is still open
C35_Witness ==
    /\ SellSignalled
    /\ ret.cycle.exit_signal = "SELL_CALL"
    /\ LatestLtp = 0
    /\ ~ret.cycle.sell_called
    /\ has_open_position(ret.cycle.portfolio)
    /\ ret.cycle.portfolio = ret.cycle.loaded

\* a SELL signal with a price above 0 is executed
PricedSellSignalExecuted == (SellSignalled /\ LatestLtp # 0) => SoldAt(LatestLtp)

\* ------------------------------------------------------------ the cooldown in the loop
\* the cooldown gate of evaluate_signal is active for ledger p at every latest
\* sequence a table of at most three snapshots can have
GateActive(p) ==
    \A latest_seq \in 0..2 :
        /\ get_last_buy_snapshot_seq(p) # None
        /\ latest_seq - get_last_buy_snapshot_seq(p) <= DEFAULT_COOLDOWN

\* C36: in the poll loop, on tables of at most 3 sequences numbered 0..2 in
\* each cycle, the cooldown gate is active in every cycle after the first
\* successful Buy, so at most one Buy ever occurs, also after its position has
\* been sold: a cycle whose Buy returned success leaves files from which the
\* next cycle loads a ledger with the gate active, the gate stays active in the
\* ledger the files load as, a cycle that loads such a ledger calls no Buy, and
\* no ledger holds more than one BUY record.
C36_CooldownAfterFirstBuy ==
    [][/\ (pc = AtCycle /\ ret'.cycle.buy_ok) => GateActive(Reloaded')
       /\ GateActive(Reloaded) => GateActive(Reloaded')
       /\ (pc = AtCycle /\ GateActive(Reloaded)) => ~ret'.cycle.buy_called
       /\ ActionCount(Reloaded'.trade_history, "BUY") <= 1
       /\ ActionCount(portfolio'.trade_history, "BUY") <= 1]_vars

\* a cycle bought and the Buy returned success, but the ledger the next cycle
\* will load has no last buy sequence: its gate is open
C36_Witness ==
    /\ Cycled
    /\ ret.cycle.buy_ok
    /\ get_last_buy_snapshot_seq(ret.cycle.portfolio) = 2
    /\ get_last_buy_snapshot_seq(Reloaded) = NO_BUY_SEQ
    /\ ~GateActive(Reloaded)

\* a cycle that loads a ledger with a last buy sequence calls no Buy, also when
\* the position is sold and the table has an entry; no ledger holds two BUYs
PersistedGateBlocks ==
    [][/\ (pc = AtCycle /\ GateActive(Reloaded)) => ~ret'.cycle.buy_called
       /\ ActionCount(Reloaded'.trade_history, "BUY") <= 1
       /\ ActionCount(portfolio'.trade_history, "BUY") <= 1]_vars

\* a cycle sold the position of a ledger that holds a Buy, on a table that has
\* an entry at its latest snapshot: the gate answered the entry evaluation
GateBlockedAfterSell ==
    /\ Cycled
    /\ ret.cycle.sell_ok
    /\ GateActive(ret.cycle.loaded)
    /\ ret.cycle.entry_signal = "NO_SIGNAL"
    /\ ~ret.cycle.buy_called

\* ------------------------------------------------------------ the hold in the loop
\* the latest sequence of the table the cycle prepared: one sequence for each
\* snapshot of the CSV file, numbered from 0
LatestSeq == Cardinality({df.rows[k].SNAPSHOT_ID : k \in 1..Len(df.rows)}) - 1

\* the cycle prepared its table with a position open
CycledOpen == Cycled /\ ret.cycle.error = "" /\ has_open_position(ret.cycle.loaded)

\* the row of the position one snapshot before the latest
PreviousRow ==
    CHOOSE r \in {df.rows[k] : k \in 1..Len(df.rows)} :
        /\ r.STRIKE = LoadedOpen.strike
        /\ r.SNAPSHOT_ID = df.rows[Len(df.rows)].SNAPSHOT_ID - 1

\* C37: in the poll loop, on tables of at most 3 sequences numbered 0..2 in
\* each cycle, the hold duration of the open position (latest sequence - entry
\* sequence) is always below the minimum hold of 7, the trend-reversal exit
\* never fires, and every Sell the loop executes is a stop-loss exit: the price
\* it sells at is at or below half of the entry price.
C37_OnlyStopLossExits ==
    /\ CycledOpen => LatestSeq - LoadedOpen.snapshot_seq < DEFAULT_MIN_HOLD_SNAPS
    /\ (Cycled /\ ret.cycle.sell_called) =>
           /\ ret.cycle.exit_signal \in {"SELL_CALL", "SELL_PUT"}
           /\ LatestLtp * 100 <= LoadedOpen.entry_price * (100 - DEFAULT_STOP_LOSS_PCT)

\* the open position's LTP and OI at the latest of three snapshots are below
\* those of the snapshot before and above the stop loss: the cycle holds it
C37_Witness ==
    /\ CycledOpen
    /\ LatestSeq = 2
    /\ \E k \in 1..Len(df.rows) :
           /\ df.rows[k].STRIKE = LoadedOpen.strike
           /\ df.rows[k].SNAPSHOT_ID = df.rows[Len(df.rows)].SNAPSHOT_ID - 1
    /\ \E k \in 1..Len(df.rows) :
           /\ df.rows[k].STRIKE = LoadedOpen.strike
           /\ df.rows[k].SNAPSHOT_ID = df.rows[Len(df.rows)].SNAPSHOT_ID
    /\ LatestLtp < ltp_of(LoadedOpen.type, PreviousRow)
    /\ oi_of(LoadedOpen.type, LatestRow) < oi_of(LoadedOpen.type, PreviousRow)
    /\ LatestLtp * 100 > LoadedOpen.entry_price * (100 - DEFAULT_STOP_LOSS_PCT)
    /\ ret.cycle.exit_signal = "NO_SIGNAL"
    /\ ~ret.cycle.sell_called
    /\ has_open_position(ret.cycle.portfolio)

====
